---- MODULE Spec2Model ----
(***************************************************************************)
(* Model of MaCleaner: the duplicate scanner (internal/scanner) and the    *)
(* cleaner (internal/cleaner) over an explicit file tree.                  *)
(*                                                                         *)
(* A Go string is a sequence of one-character strings, so that             *)
(* strings.HasPrefix, strings.Split, filepath.Match and filepath.Base are  *)
(* computed character by character as the library computes them.           *)
(* The file system is the function fs: its domain is the set of existing   *)
(* paths and fs[p] is what os.Lstat(p) reports, plus what decides whether  *)
(* open(2) and unlink(2) succeed on p.                                     *)
(***************************************************************************)
EXTENDS Integers, Sequences, FiniteSets, TLC

VARIABLES
    fs,            \* path -> [dir, size, head, readable, prot]
    scanPc,        \* position inside Scanner.ScanDuplicates
    roots,         \* scan roots of `dirs` still to be walked
    walkQueue,     \* entries filepath.Walk has still to visit, in order
    scannedCount,  \* files counted by the traversal pass
    sizeMap,       \* size -> paths (first pass)
    sizeKeysLeft,  \* keys of sizeMap the second pass has still to range over
    hashMap,       \* hash -> paths (second pass)
    hashKeysLeft,  \* keys of hashMap the grouping loop has still to range over
    groups,        \* []models.DuplicateGroup
    totalSize,     \* reclaimable total
    targets,       \* app.targets, the []models.CleanupTarget handed to CleanTargets
    cleanPc,       \* position inside scanTargets / Cleaner.CleanTargets
    ci,            \* loop index i of CleanTargets
    results,       \* results of CleanTargets
    totalSaved,    \* totalSaved of CleanTargets
    HasSudo,       \* SudoManager.HasSudo
    findStyle,     \* which find(1) the machine has: "gnu" or "bsd"
    preErr,        \* what the EnsureSudo pre-check of CleanTargets returned
    fsAtCall,      \* the file system when CleanTargets was called
    fsBefore,      \* the file system when the latest cleanTarget was called
    stepIdx,       \* index of the target the latest iteration cleaned, else 0
    delLog,        \* (path, error) of each deleteSinglePath call of that cleanTarget
    delErr,        \* what deletePath returned to that cleanTarget
    cmdLog,        \* commands executed since CleanTargets was called
    cleaned,       \* names of the targets an earlier call cleaned and freed bytes for
    targetsAtCall, \* the targets as they were handed to CleanTargets
    listed,        \* names PrintConfirm listed before the call
    delKind,       \* which of DeleteBigFiles, DeleteOldFiles, DeleteDuplicates runs
    delFiles,      \* the Path of each []models.BigFile / []models.OldFile entry
    delGroups,     \* the []models.DuplicateGroup
    selected,      \* the selected map[int]bool
    selKeysLeft,   \* keys of selected the range loop has still to visit
    delPaths,      \* paths / filesToDelete, handed to DeleteFiles
    delIdx,        \* position of DeleteFiles in its list
    totalDeleted,  \* totalDeleted of DeleteFiles
    delPc,         \* position inside the delete operation
    fsAtDelete,    \* the file system when the delete operation was called
    rmLog,         \* (file, size, error) of each removal DeleteFiles tried
    mPc,           \* whether calculateActualSize has been called
    mPattern,      \* the pattern it was called with
    mActual,       \* what calculateActualSize returned
    mFound,        \* what its find branch computes: find's failure, or the total
    mWalked,       \* what walkCalculateSize computes for the same pattern
    mEstimate,     \* what Scanner.CalculateSize returns for the same pattern
    mu,            \* SudoManager.mu: "none" or who holds it
    LastAuth,      \* SudoManager.LastAuth
    now,           \* the clock, in minutes
    ensurePc,      \* position of the caller inside EnsureSudo
    keepPc,        \* position of each keepAlive goroutine
    access,        \* the last read or write of HasSudo or LastAuth, and whether its goroutine held mu
    staleCheck,    \* the goroutines whose failed sudo -n true ran before the latest successful sudo -v
    shPc,          \* whether ShortenPath has been called
    shPath,        \* its path argument, a sequence of bytes
    shMaxLen,      \* its maxLen argument
    shOut,         \* what it returned
    fbPc,          \* whether formatBytes has been called, has returned or has panicked
    fbWhich,       \* which formatBytes: the one of ltui or the one of scanner
    fbBytes,       \* its int64 argument: a sign and base-1024 digits, lowest first
    fbOut,         \* the label it returned: the number printed (if any) and the unit
    bigFiles,      \* app.bigFiles, the []models.BigFile of ScanBigFiles
    minSize,       \* the minSize ScanBigFiles was called with
    screen,        \* the screen the menu loop of the app is showing
    cursor,        \* app.cursor
    selections,    \* app.selections, a map[int]bool
    duplicateGroups, \* app.duplicateGroups
    oldFiles,      \* app.oldFiles
    picked,        \* the items of the list shown that the user's keys have left selected
    keysRead       \* how many keys the user has pressed

scanVars ==
    <<scanPc, roots, walkQueue, scannedCount, sizeMap, sizeKeysLeft,
      hashMap, hashKeysLeft, groups, totalSize>>

cleanVars ==
    <<targets, cleanPc, ci, results, totalSaved, HasSudo, findStyle, preErr,
      fsAtCall, fsBefore, stepIdx, delLog, delErr, cmdLog, cleaned,
      targetsAtCall, listed>>

delVars ==
    <<delKind, delFiles, delGroups, selected, selKeysLeft, delPaths, delIdx,
      totalDeleted, delPc, fsAtDelete, rmLog>>

\* cleanVars but for the flag of the SudoManager
cleanState ==
    <<targets, cleanPc, ci, results, totalSaved, findStyle, preErr,
      fsAtCall, fsBefore, stepIdx, delLog, delErr, cmdLog, cleaned,
      targetsAtCall, listed>>

measVars ==
    <<mPc, mPattern, mActual, mFound, mWalked, mEstimate>>

sudoVars ==
    <<mu, LastAuth, now, ensurePc, keepPc, access, staleCheck>>

menuVars ==
    <<screen, cursor, selections, duplicateGroups, oldFiles, picked, keysRead>>

helperVars ==
    <<shPc, shPath, shMaxLen, shOut, fbPc, fbWhich, fbBytes, fbOut, minSize>>

viewVars ==
    <<shPc, shPath, shMaxLen, shOut, fbPc, fbWhich, fbBytes, fbOut, bigFiles, minSize, menuVars>>

vars ==
    <<fs, scanVars, cleanVars, delVars, measVars, sudoVars, viewVars>>

(***************************************************************************)
(* Strings                                                                 *)
(***************************************************************************)
Slash ==
    <<"/">>

Range(seq) ==
    {seq[k] : k \in 1..Len(seq)}

HasPrefix(s, prefix) ==
    /\ Len(prefix) <= Len(s)
    /\ SubSeq(s, 1, Len(prefix)) = prefix

Contains(s, ch) ==
    \E i \in 1..Len(s) : s[i] = ch

\* index of the last "/" of s, 0 when there is none
LastSlash(s) ==
    LET idx == {i \in 1..Len(s) : s[i] = "/"}
    IN  IF idx = {} THEN 0 ELSE CHOOSE i \in idx : \A j \in idx : j <= i

\* filepath.Base for a cleaned path: the last element
Base(path) ==
    SubSeq(path, LastSlash(path) + 1, Len(path))

\* filepath.Dir for a cleaned absolute path: everything before the last "/"
Dir(path) ==
    IF LastSlash(path) <= 1 THEN Slash ELSE SubSeq(path, 1, LastSlash(path) - 1)

\* filepath.Join(a, b): one separator between the two, none doubled
Join(a, b) ==
    LET a1 == IF Len(a) > 0 /\ a[Len(a)] = "/" THEN SubSeq(a, 1, Len(a) - 1) ELSE a
        b1 == IF Len(b) > 0 /\ b[1] = "/" THEN SubSeq(b, 2, Len(b)) ELSE b
    IN  IF Len(b1) = 0 THEN a1 ELSE a1 \o Slash \o b1

Home ==
    <<"/", "h">>

ExpandPath(path) ==
    IF HasPrefix(path, <<"~">>) THEN Join(Home, SubSeq(path, 2, Len(path))) ELSE path

(***************************************************************************)
(* The file tree of the scanner                                            *)
(***************************************************************************)
Documents ==
    <<"~", "/", "D", "o", "c", "u", "m", "e", "n", "t", "s">>

Desktop ==
    <<"~", "/", "D", "e", "s", "k", "t", "o", "p">>

Downloads ==
    <<"~", "/", "D", "o", "w", "n", "l", "o", "a", "d", "s">>

DotGit ==
    <<".", "g", "i", "t">>

NodeModules ==
    <<"n", "o", "d", "e", "_", "m", "o", "d", "u", "l", "e", "s">>

Vendor ==
    <<"v", "e", "n", "d", "o", "r">>

Library ==
    <<"L", "i", "b", "r", "a", "r", "y">>

\* largest file size of the tree, in MiB
MaxSizeMiB ==
    3

\* number of distinct contents of the first 4096 bytes
MaxHead ==
    2

\* 1024*1024: only larger files are bucketed
MinDupSize ==
    1048576

SmallSize ==
    5

DocsDir ==
    ExpandPath(Documents)

DeskDir ==
    ExpandPath(Desktop)

FileA ==
    Join(DocsDir, <<"a">>)

FileB ==
    Join(DocsDir, <<"b">>)

SubDir ==
    Join(DocsDir, <<"s">>)

FileC ==
    Join(SubDir, <<"c">>)

GitDir ==
    Join(DocsDir, DotGit)

FileP ==
    Join(GitDir, <<"p">>)

FileD ==
    Join(DeskDir, <<"d">>)

FileSmall ==
    Join(DeskDir, <<"e">>)

DotX ==
    <<".", "x">>

\* a directory `name` of `parent` with what the scanner could find in it: a
\* file, a sub-directory and a file of that
Under(parent, name) ==
    <<Join(parent, name),
      Join(Join(parent, name), <<"p">>),
      Join(Join(parent, name), <<"q">>),
      Join(Join(Join(parent, name), <<"q">>), <<"r">>)>>

\* the paths of the trees of TestScanDuplicates
ScanPaths ==
    {DocsDir, GitDir, FileP, FileA, FileB, SubDir, FileC, DeskDir, FileD, FileSmall}

\* every path of the scanner's trees, in the order filepath.Walk reads
\* directories (names sorted)
ScanUniverse ==
    <<DocsDir>> \o Under(DocsDir, DotGit) \o Under(DocsDir, DotX) \o Under(DocsDir, Library)
        \o <<FileA, FileB>> \o Under(DocsDir, NodeModules)
        \o <<SubDir>> \o Under(SubDir, DotGit) \o Under(SubDir, DotX) \o Under(SubDir, Library)
        \o <<FileC>> \o Under(SubDir, NodeModules) \o Under(SubDir, Vendor)
        \o Under(DocsDir, Vendor)
        \o <<DeskDir, FileD, FileSmall>>

ScanSlots ==
    {FileA, FileB, FileC, FileD}

DirNode ==
    [dir |-> TRUE, size |-> 0, head |-> 0, readable |-> TRUE, prot |-> "user"]

FileNode(size, head, readable) ==
    [dir |-> FALSE, size |-> size, head |-> head, readable |-> readable, prot |-> "user"]

ScanSizes ==
    {k * MinDupSize : k \in 1..MaxSizeMiB}

ScanTrees ==
    {[p \in ScanPaths |->
        IF p \in ScanSlots
        THEN FileNode(sz[p], hd[p], p /= FileB \/ rb)
        ELSE IF p = FileP THEN FileNode(2 * MinDupSize, 1, TRUE)
        ELSE IF p = FileSmall THEN FileNode(SmallSize, 1, TRUE)
        ELSE DirNode] :
        sz \in [ScanSlots -> ScanSizes], hd \in [ScanSlots -> 1..MaxHead], rb \in BOOLEAN}

(***************************************************************************)
(* The file tree and the targets of the cleaner                            *)
(***************************************************************************)
CacheDir ==
    <<"/", "h", "/", "c">>

CacheSub ==
    Join(CacheDir, <<"d">>)

CacheG1 ==
    Join(CacheSub, <<"g", "1">>)

CacheG2 ==
    Join(CacheSub, <<"g", "2">>)

CacheF1 ==
    Join(CacheDir, <<"f", "1">>)

CacheF2 ==
    Join(CacheDir, <<"f", "2">>)

LogDir ==
    <<"/", "v">>

LogL1 ==
    Join(LogDir, <<"l", "1">>)

LogL2 ==
    Join(LogDir, <<"l", "2">>)

\* every path of the cleaner's tree, directories read in sorted order
CleanUniverse ==
    <<CacheDir, CacheSub, CacheG1, CacheG2, CacheF1, CacheF2, LogDir, LogL1, LogL2>>

ProtNode(size, prot) ==
    [dir |-> FALSE, size |-> size, head |-> 1, readable |-> TRUE, prot |-> prot]

\* the trees: each file is absent, removable by the user ("user") or only
\* by root ("root"); the sub-directory is absent, empty or holds two files
CleanTrees ==
    {[p \in ({CacheDir, LogDir, LogL2}
              \cup (IF f1 = "absent" THEN {} ELSE {CacheF1})
              \cup (IF f2 = "absent" THEN {} ELSE {CacheF2})
              \cup (IF sub = "absent" THEN {} ELSE {CacheSub})
              \cup (IF sub \in {"absent", "empty"} THEN {} ELSE {CacheG1, CacheG2})
              \cup (IF l1 THEN {LogL1} ELSE {})) |->
        CASE p = CacheF1 -> ProtNode(100, f1)
          [] p = CacheF2 -> ProtNode(200, f2)
          [] p = CacheG1 -> ProtNode(500, "user")
          [] p = CacheG2 -> ProtNode(700, sub)
          [] p = LogL1 -> ProtNode(300, "root")
          [] p = LogL2 -> ProtNode(400, "root")
          [] OTHER -> DirNode] :
        f1 \in {"absent", "user", "root"}, f2 \in {"absent", "user", "root"},
        sub \in {"absent", "empty", "user", "root"}, l1 \in BOOLEAN}

Target(name, path, sudo, isCommand, command) ==
    [Name |-> name, Path |-> path, Size |-> 0, Selected |-> FALSE,
     RequiresSudo |-> sudo, IsCommand |-> isCommand, Command |-> command]

\* models.GetDefaultTargets, one target of each shape, plus the single-file
\* target of TestCleanTarget
Catalog ==
    <<Target("QuickTime Cache", <<"~", "/", "c", "/", "f", "*">>, FALSE, FALSE, ""),
      Target("User Caches", <<"~", "/", "c", "/", "*">>, FALSE, FALSE, ""),
      Target("Gradle Cache", <<"~", "/", "c", "/", "d">>, FALSE, FALSE, ""),
      Target("System Logs", <<"/", "v", "/", "*">>, TRUE, FALSE, ""),
      Target("Homebrew Cache", <<"~", "/", "c", "/", "d">>, FALSE, TRUE, "brew cleanup"),
      Target("Time Machine Local", <<>>, TRUE, TRUE, "tmutil deletelocalsnapshots /"),
      Target("Test File", <<"/", "h", "/", "c", "/", "f", "1">>, FALSE, FALSE, "")>>

\* how many targets the user has selected at most
MaxSelected ==
    2

CommandEstimates ==
    {0, 1048576}

(***************************************************************************)
(* os and filepath over fs                                                 *)
(***************************************************************************)
Exists(path) ==
    path \in DOMAIN fs

IsDir(path) ==
    Exists(path) /\ fs[path].dir

\* the entries of a directory in the order filepath.Walk visits them
Children(universe, path) ==
    SelectSeq(universe, LAMBDA q : Exists(q) /\ q /= path /\ Dir(q) = path)

\* utils.FileHash: "" when the file cannot be opened, else the md5 of the
\* first 4096 bytes, a function of those bytes alone
FileHash(path) ==
    IF ~Exists(path) \/ fs[path].dir \/ ~fs[path].readable
    THEN <<>>
    ELSE <<"md5", fs[path].head>>

(***************************************************************************)
(* Scanner.ScanDuplicates                                                  *)
(***************************************************************************)
ScanDirs ==
    <<ExpandPath(Documents), ExpandPath(Desktop), ExpandPath(Downloads)>>

skipDirs ==
    {DotGit, NodeModules, Vendor, Library}

SkipsDirByName(name) ==
    name \in skipDirs

SkipsDir(name) ==
    name \in skipDirs \/ HasPrefix(name, <<".">>)

AboveThresholdGE(size) ==
    size >= MinDupSize

AboveThreshold(size) ==
    size > MinDupSize

ReclaimableAll(size, n) ==
    size * n

Reclaimable(size, n) ==
    size * (n - 1)

MapAppend(m, key, val) ==
    IF key \in DOMAIN m
    THEN [m EXCEPT ![key] = Append(@, val)]
    ELSE [k \in DOMAIN m \cup {key} |-> IF k = key THEN <<val>> ELSE m[k]]

EmptyMap ==
    [k \in {} |-> <<>>]

ScanIdle ==
    /\ scanPc = "idle"
    /\ roots = <<>>
    /\ walkQueue = <<>>
    /\ scannedCount = 0
    /\ sizeMap = EmptyMap
    /\ sizeKeysLeft = {}
    /\ hashMap = EmptyMap
    /\ hashKeysLeft = {}
    /\ groups = <<>>
    /\ totalSize = 0

\* GetDefaultTargets: nothing selected, nothing measured
CleanIdle ==
    /\ targets = Catalog
    /\ cleanPc = "idle"
    /\ ci = 0
    /\ results = <<>>
    /\ totalSaved = 0
    /\ HasSudo = FALSE
    /\ findStyle = "gnu"
    /\ preErr = "none"
    /\ fsAtCall = fs
    /\ fsBefore = fs
    /\ stepIdx = 0
    /\ delLog = <<>>
    /\ delErr = "none"
    /\ cmdLog = <<>>
    /\ cleaned = {}
    /\ targetsAtCall = targets
    /\ listed = {}

MaxKeepAlive ==
    2

MaxTime ==
    6

\* no delete operation has been called
DeleteIdle ==
    /\ delKind = "none"
    /\ delFiles = <<>>
    /\ delGroups = <<>>
    /\ selected = <<>>
    /\ selKeysLeft = {}
    /\ delPaths = <<>>
    /\ delIdx = 0
    /\ totalDeleted = 0
    /\ delPc = "idle"
    /\ fsAtDelete = <<>>
    /\ rmLog = <<>>

\* calculateActualSize has not been called on its own
MeasureIdle ==
    /\ mPc = "idle"
    /\ mPattern = <<>>
    /\ mActual = 0
    /\ mFound = [err |-> FALSE, total |-> 0]
    /\ mWalked = 0
    /\ mEstimate = 0

\* ShortenPath has not been called
ShortenIdle ==
    /\ shPc = "idle"
    /\ shPath = <<>>
    /\ shMaxLen = 0
    /\ shOut = <<>>

\* formatBytes has not been called
FormatIdle ==
    /\ fbPc = "idle"
    /\ fbWhich = "none"
    /\ fbBytes = [neg |-> FALSE, digits |-> <<>>]
    /\ fbOut = [number |-> <<>>, unit |-> ""]

\* ScanBigFiles has not been called
BigIdle ==
    /\ bigFiles = <<>>
    /\ minSize = 0

\* newApp, before app.run: the main menu, an empty selection map
MenuIdle ==
    /\ screen = "menu"
    /\ cursor = 0
    /\ selections = <<>>
    /\ duplicateGroups = <<>>
    /\ oldFiles = <<>>
    /\ picked = {}
    /\ keysRead = 0

\* nothing is being displayed
ViewIdle ==
    /\ ShortenIdle
    /\ FormatIdle
    /\ BigIdle
    /\ MenuIdle

\* NewSudoManager: no credentials, nobody inside EnsureSudo, no goroutine
SudoIdle ==
    /\ mu = "none"
    /\ LastAuth = 0
    /\ now = 0
    /\ ensurePc = "idle"
    /\ keepPc = [k \in 1..MaxKeepAlive |-> "off"]
    /\ access = [by |-> "none", field |-> "none", locked |-> TRUE]
    /\ staleCheck = {}

ScanInit ==
    /\ fs \in ScanTrees
    /\ ScanIdle
    /\ CleanIdle
    /\ DeleteIdle
    /\ MeasureIdle
    /\ SudoIdle
    /\ ViewIdle

\* the call: sizeMap := make(...), dirs := [...]
ScanStart ==
    /\ scanPc \in {"idle", "done"}
    /\ scanPc' = "walk"
    /\ roots' = ScanDirs
    /\ walkQueue' = <<>>
    /\ scannedCount' = 0
    /\ sizeMap' = EmptyMap
    /\ sizeKeysLeft' = {}
    /\ hashMap' = EmptyMap
    /\ hashKeysLeft' = {}
    /\ groups' = <<>>
    /\ totalSize' = 0
    /\ UNCHANGED <<viewVars, fs, cleanVars, delVars, measVars, sudoVars>>

\* for _, dir := range dirs: a root that does not exist is skipped
NextRoot ==
    /\ scanPc = "walk"
    /\ walkQueue = <<>>
    /\ roots /= <<>>
    /\ roots' = Tail(roots)
    /\ walkQueue' = IF Exists(Head(roots)) THEN <<Head(roots)>> ELSE <<>>
    /\ UNCHANGED <<viewVars, fs, scanPc, scannedCount, sizeMap, sizeKeysLeft, hashMap,
                   hashKeysLeft, groups, totalSize, cleanVars, delVars, measVars, sudoVars>>

\* one call of the walk function
WalkVisit ==
    /\ scanPc = "walk"
    /\ walkQueue /= <<>>
    /\ LET path == Head(walkQueue)
           info == fs[path]
       IN  IF info.dir
           THEN /\ walkQueue' =
                     IF SkipsDir(Base(path))
                     THEN Tail(walkQueue)
                     ELSE Children(ScanUniverse, path) \o Tail(walkQueue)
                /\ UNCHANGED <<scannedCount, sizeMap>>
           ELSE /\ walkQueue' = Tail(walkQueue)
                /\ scannedCount' = scannedCount + 1
                /\ sizeMap' = IF AboveThreshold(info.size)
                              THEN MapAppend(sizeMap, info.size, path)
                              ELSE sizeMap
    /\ UNCHANGED <<viewVars, fs, scanPc, roots, sizeKeysLeft, hashMap, hashKeysLeft,
                   groups, totalSize, cleanVars, delVars, measVars, sudoVars>>

\* the traversal pass is over; the second pass starts to range over sizeMap
WalkDone ==
    /\ scanPc = "walk"
    /\ walkQueue = <<>>
    /\ roots = <<>>
    /\ scanPc' = "hash"
    /\ hashMap' = EmptyMap
    /\ sizeKeysLeft' = DOMAIN sizeMap
    /\ UNCHANGED <<viewVars, fs, roots, walkQueue, scannedCount, sizeMap, hashKeysLeft,
                   groups, totalSize, cleanVars, delVars, measVars, sudoVars>>

RECURSIVE HashPaths(_, _)
\* for _, path := range paths: append to hashMap under the file's hash
HashPaths(m, paths) ==
    IF paths = <<>>
    THEN m
    ELSE LET hash == FileHash(Head(paths))
         IN  HashPaths(IF hash /= <<>> THEN MapAppend(m, hash, Head(paths)) ELSE m,
                       Tail(paths))

\* one iteration of `for _, paths := range sizeMap`; Go ranges over a map in
\* an unspecified order
HashBucket ==
    /\ scanPc = "hash"
    /\ \E k \in sizeKeysLeft :
        /\ sizeKeysLeft' = sizeKeysLeft \ {k}
        /\ hashMap' = IF Len(sizeMap[k]) < 2 THEN hashMap ELSE HashPaths(hashMap, sizeMap[k])
    /\ UNCHANGED <<viewVars, fs, scanPc, roots, walkQueue, scannedCount, sizeMap,
                   hashKeysLeft, groups, totalSize, cleanVars, delVars, measVars, sudoVars>>

HashDone ==
    /\ scanPc = "hash"
    /\ sizeKeysLeft = {}
    /\ scanPc' = "group"
    /\ hashKeysLeft' = DOMAIN hashMap
    /\ UNCHANGED <<viewVars, fs, roots, walkQueue, scannedCount, sizeMap, sizeKeysLeft,
                   hashMap, groups, totalSize, cleanVars, delVars, measVars, sudoVars>>

\* one iteration of `for hash, paths := range hashMap`
MakeGroup ==
    /\ scanPc = "group"
    /\ \E hash \in hashKeysLeft :
        LET paths == hashMap[hash]
        IN  /\ hashKeysLeft' = hashKeysLeft \ {hash}
            /\ IF Len(paths) > 1 /\ Exists(paths[1])
               THEN /\ groups' = Append(groups,
                                    [Hash |-> hash, Size |-> fs[paths[1]].size, Files |-> paths])
                    /\ totalSize' = totalSize + Reclaimable(fs[paths[1]].size, Len(paths))
               ELSE UNCHANGED <<groups, totalSize>>
    /\ UNCHANGED <<viewVars, fs, scanPc, roots, walkQueue, scannedCount, sizeMap,
                   sizeKeysLeft, hashMap, cleanVars, delVars, measVars, sudoVars>>

\* return groups, totalSize
ScanReturn ==
    /\ scanPc = "group"
    /\ hashKeysLeft = {}
    /\ scanPc' = "done"
    /\ UNCHANGED <<viewVars, fs, roots, walkQueue, scannedCount, sizeMap, sizeKeysLeft,
                   hashMap, hashKeysLeft, groups, totalSize, cleanVars, delVars, measVars, sudoVars>>

ScanNext ==
    \/ ScanStart
    \/ NextRoot
    \/ WalkVisit
    \/ WalkDone
    \/ HashBucket
    \/ HashDone
    \/ MakeGroup
    \/ ScanReturn

ScanSpec ==
    ScanInit /\ [][ScanNext]_vars

(***************************************************************************)
(* Scanner.ScanBigFiles, and the trees with directories the scanners skip  *)
(***************************************************************************)
\* the names a tree directory is given: those of skipDirs and a hidden one
SkippedNames ==
    {DotGit, NodeModules, Vendor, Library, DotX}

\* the trees of TestScanDuplicates' shape with one such directory, in a scan
\* root or in a sub-directory of it; every file could be a duplicate of the
\* others and is as large as any minSize
PruneTrees ==
    {[p \in {DocsDir, FileA, FileB, SubDir, FileC, DeskDir, FileD}
             \cup {Under(parent, name)[i] : i \in 1..(2 * depth)} |->
        IF p \in {DocsDir, SubDir, DeskDir, Under(parent, name)[1], Under(parent, name)[3]}
        THEN DirNode
        ELSE FileNode(IF p = FileA THEN sz ELSE MaxSizeMiB * MinDupSize, 1, TRUE)] :
        parent \in {DocsDir, SubDir}, name \in SkippedNames, depth \in 1..2,
        sz \in ScanSizes}

PruneInit ==
    /\ fs \in PruneTrees
    /\ ScanIdle
    /\ CleanIdle
    /\ DeleteIdle
    /\ MeasureIdle
    /\ SudoIdle
    /\ ViewIdle

Movies ==
    <<"~", "/", "M", "o", "v", "i", "e", "s">>

Music ==
    <<"~", "/", "M", "u", "s", "i", "c">>

Pictures ==
    <<"~", "/", "P", "i", "c", "t", "u", "r", "e", "s">>

BigDirs ==
    <<ExpandPath(Documents), ExpandPath(Desktop), ExpandPath(Downloads),
      ExpandPath(Movies), ExpandPath(Music), ExpandPath(Pictures)>>

BigFile(path, size) ==
    [Path |-> path, Size |-> size]

\* ScanBigFiles(minSize, progress) is called
BigStart ==
    /\ scanPc = "idle"
    /\ scanPc' = "bigwalk"
    /\ minSize' \in ScanSizes
    /\ bigFiles' = <<>>
    /\ roots' = BigDirs
    /\ walkQueue' = <<>>
    /\ scannedCount' = 0
    /\ UNCHANGED <<fs, cleanVars, delVars, measVars, sudoVars, sizeMap, sizeKeysLeft, hashMap,
                   hashKeysLeft, groups, totalSize, shPc, shPath, shMaxLen, shOut,
                   fbPc, fbWhich, fbBytes, fbOut, menuVars>>

\* for _, dir := range dirs: a root that does not exist is skipped
BigRoot ==
    /\ scanPc = "bigwalk"
    /\ walkQueue = <<>>
    /\ roots /= <<>>
    /\ roots' = Tail(roots)
    /\ walkQueue' = IF Exists(Head(roots)) THEN <<Head(roots)>> ELSE <<>>
    /\ UNCHANGED <<viewVars, fs, scanPc, scannedCount, sizeMap, sizeKeysLeft, hashMap,
                   hashKeysLeft, groups, totalSize, cleanVars, delVars, measVars, sudoVars>>

\* one call of the walk function of ScanBigFiles
BigVisit ==
    /\ scanPc = "bigwalk"
    /\ walkQueue /= <<>>
    /\ scannedCount' = scannedCount + 1
    /\ LET path == Head(walkQueue)
           info == fs[path]
       IN  IF info.dir
           THEN /\ walkQueue' =
                     IF SkipsDir(Base(path))
                     THEN Tail(walkQueue)
                     ELSE Children(ScanUniverse, path) \o Tail(walkQueue)
                /\ UNCHANGED bigFiles
           ELSE /\ walkQueue' = Tail(walkQueue)
                /\ bigFiles' = IF info.size >= minSize
                               THEN Append(bigFiles, BigFile(path, info.size))
                               ELSE bigFiles
    /\ UNCHANGED <<fs, cleanVars, delVars, measVars, sudoVars, scanPc, roots, sizeMap,
                   sizeKeysLeft, hashMap, hashKeysLeft, groups, totalSize, minSize,
                   shPc, shPath, shMaxLen, shOut, fbPc, fbWhich, fbBytes, fbOut, menuVars>>

\* return files
BigReturn ==
    /\ scanPc = "bigwalk"
    /\ walkQueue = <<>>
    /\ roots = <<>>
    /\ scanPc' = "bigdone"
    /\ UNCHANGED <<viewVars, fs, roots, walkQueue, scannedCount, sizeMap, sizeKeysLeft,
                   hashMap, hashKeysLeft, groups, totalSize, cleanVars, delVars, measVars, sudoVars>>

PruneNext ==
    \/ ScanStart
    \/ NextRoot
    \/ WalkVisit
    \/ WalkDone
    \/ HashBucket
    \/ HashDone
    \/ MakeGroup
    \/ ScanReturn
    \/ BigStart
    \/ BigRoot
    \/ BigVisit
    \/ BigReturn

PruneSpec ==
    PruneInit /\ [][PruneNext]_vars

(***************************************************************************)
(* os, filepath and find(1) over an explicit file-system value f           *)
(***************************************************************************)
RECURSIVE Clean(_)
\* filepath.Clean, as the kernel resolves a path: no doubled and no trailing
\* separator
Clean(path) ==
    IF Len(path) <= 1
    THEN path
    ELSE IF path[1] = "/" /\ path[2] = "/"
         THEN Clean(Tail(path))
         ELSE IF Len(path) = 2 /\ path[2] = "/"
              THEN <<path[1]>>
              ELSE <<path[1]>> \o Clean(Tail(path))

\* os.Stat(path) succeeds
StatOk(f, path) ==
    Clean(path) \in DOMAIN f

StatInfo(f, path) ==
    f[Clean(path)]

\* the existing paths at or below path
Subtree(f, path) ==
    {q \in DOMAIN f : q = path \/ HasPrefix(q, path \o Slash)}

RECURSIVE SumSizes(_, _)
SumSizes(f, paths) ==
    IF paths = {}
    THEN 0
    ELSE LET q == CHOOSE x \in paths : TRUE
         IN  (IF f[q].dir THEN 0 ELSE f[q].size) + SumSizes(f, paths \ {q})

DirSizeShallow(f, path) ==
    SumSizes(f, {q \in Subtree(f, Clean(path)) : Dir(q) = Clean(path)})

\* utils.DirSize: filepath.Walk over the tree, adding the size of every entry
\* that is not a directory; a root that cannot be read adds nothing
DirSize(f, path) ==
    SumSizes(f, Subtree(f, Clean(path)))

\* hasMeta of path/filepath: the magic characters of a pattern
hasMeta(pattern) ==
    \E i \in 1..Len(pattern) : pattern[i] \in {"*", "?", "[", "\\"}

RECURSIVE Match(_, _)
\* filepath.Match for patterns of literal characters and '*': '*' matches
\* any sequence of non-separator characters
Match(pattern, name) ==
    IF pattern = <<>>
    THEN name = <<>>
    ELSE IF Head(pattern) = "*"
         THEN \E k \in 0..Len(name) :
                 /\ \A i \in 1..k : name[i] /= "/"
                 /\ Match(Tail(pattern), SubSeq(name, k + 1, Len(name)))
         ELSE /\ name /= <<>>
              /\ Head(name) = Head(pattern)
              /\ Match(Tail(pattern), Tail(name))

\* glob of path/filepath: the entries of dir whose name matches pattern
globDir(universe, f, dir, pattern) ==
    IF ~(StatOk(f, dir) /\ StatInfo(f, dir).dir)
    THEN <<>>
    ELSE SelectSeq(universe,
                   LAMBDA q : /\ q \in DOMAIN f
                              /\ q /= Clean(dir)
                              /\ Dir(q) = Clean(dir)
                              /\ Match(pattern, Base(q)))

RECURSIVE Glob(_, _, _)
RECURSIVE GlobEach(_, _, _, _)
\* filepath.Glob: the existing paths that match pattern, in sorted order
Glob(universe, f, pattern) ==
    IF ~hasMeta(pattern)
    THEN IF StatOk(f, pattern) THEN <<pattern>> ELSE <<>>
    ELSE LET dir == Dir(pattern)
             file == Base(pattern)
         IN  IF ~hasMeta(dir)
             THEN globDir(universe, f, dir, file)
             ELSE GlobEach(universe, f, Glob(universe, f, dir), file)

GlobEach(universe, f, dirs, file) ==
    IF dirs = <<>>
    THEN <<>>
    ELSE globDir(universe, f, Head(dirs), file) \o GlobEach(universe, f, Tail(dirs), file)

\* strings.Split(pattern, "*")[0]
BeforeStar(pattern) ==
    LET idx == {i \in 1..Len(pattern) : pattern[i] = "*"}
    IN  IF idx = {}
        THEN pattern
        ELSE SubSeq(pattern, 1, (CHOOSE i \in idx : \A j \in idx : i <= j) - 1)

\* find basePath -type f -print0.  find fails when basePath does not exist.
\* A file below basePath is printed as basePath, a separator and the
\* relative path; GNU find adds no separator after a basePath that ends
\* with one, BSD find (macOS) always adds it.
FindFiles(universe, f, basePath, style) ==
    LET root == Clean(basePath)
        slashEnd == Len(basePath) > 0 /\ basePath[Len(basePath)] = "/"
        prefix == IF slashEnd /\ style = "gnu" THEN basePath ELSE basePath \o Slash
        under == SelectSeq(universe, LAMBDA q : q \in Subtree(f, root) /\ ~f[q].dir)
    IN  IF root \notin DOMAIN f \/ (slashEnd /\ ~f[root].dir)
        THEN [err |-> TRUE, files |-> <<>>]
        ELSE [err |-> FALSE,
              files |-> [i \in 1..Len(under) |->
                            IF under[i] = root
                            THEN basePath
                            ELSE prefix \o SubSeq(under[i], Len(root) + 2, Len(under[i]))]]

(***************************************************************************)
(* Scanner.CalculateSize                                                   *)
(***************************************************************************)
HasSuffix(s, suffix) ==
    /\ Len(suffix) <= Len(s)
    /\ SubSeq(s, Len(s) - Len(suffix) + 1, Len(s)) = suffix

\* utils.SafeGlob: for a pattern ending in "/*" every path below the base
\* directory, else filepath.Glob
SafeGlob(universe, f, pattern) ==
    LET expanded == ExpandPath(pattern)
    IN  IF HasSuffix(pattern, <<"/", "*">>)
        THEN LET baseDir == SubSeq(expanded, 1, Len(expanded) - 2)
             IN  SelectSeq(universe, LAMBDA q : q \in Subtree(f, baseDir) /\ q /= baseDir)
        ELSE Glob(universe, f, expanded)

RECURSIVE SumMatches(_, _)
\* the loop of CalculateSize over the matches
SumMatches(f, matches) ==
    IF matches = <<>>
    THEN 0
    ELSE (IF ~StatOk(f, Head(matches))
          THEN 0
          ELSE IF StatInfo(f, Head(matches)).dir
               THEN DirSize(f, Head(matches))
               ELSE StatInfo(f, Head(matches)).size)
         + SumMatches(f, Tail(matches))

CalculateSize(universe, f, pattern) ==
    SumMatches(f, SafeGlob(universe, f, pattern))

\* CalculateSizeForTarget; est is what calculateCommandSize parses out of the
\* external tool's output
CalculateSizeForTarget(universe, f, target, est) ==
    IF target.IsCommand THEN est ELSE CalculateSize(universe, f, target.Path)

(***************************************************************************)
(* Cleaner                                                                 *)
(***************************************************************************)
RECURSIVE SumMatched(_, _, _)
\* the loop of calculateActualSize over the output of find
SumMatched(f, pattern, files) ==
    IF files = <<>>
    THEN 0
    ELSE (IF Head(files) /= <<>>
             /\ Match(pattern, Head(files))
             /\ StatOk(f, Head(files))
             /\ ~StatInfo(f, Head(files)).dir
          THEN StatInfo(f, Head(files)).size
          ELSE 0)
         + SumMatched(f, pattern, Tail(files))

\* walkCalculateSize: filepath.Walk hands the root as given and every other
\* entry as the joined, cleaned path
walkCalculateSize(f, basePath, pattern) ==
    LET root == Clean(basePath)
        slashEnd == Len(basePath) > 0 /\ basePath[Len(basePath)] = "/"
    IN  IF root \notin DOMAIN f \/ (slashEnd /\ ~f[root].dir)
        THEN 0
        ELSE SumSizes(f, {q \in Subtree(f, root) :
                             /\ ~f[q].dir
                             /\ Match(pattern, IF q = root THEN basePath ELSE q)})

\* the wildcard branch of calculateActualSize: find below the literal
\* prefix, walk when find fails
wildcardSize(universe, f, pattern, style) ==
    LET basePath == BeforeStar(pattern)
        found == FindFiles(universe, f, basePath, style)
    IN  IF found.err
        THEN walkCalculateSize(f, basePath, pattern)
        ELSE SumMatched(f, pattern, found.files)

calculateActualSizeNoDir(universe, f, pattern, style) ==
    IF Contains(pattern, "*")
    THEN wildcardSize(universe, f, pattern, style)
    ELSE IF ~StatOk(f, pattern) THEN 0 ELSE StatInfo(f, pattern).size

calculateActualSize(universe, f, pattern, style) ==
    IF Contains(pattern, "*")
    THEN wildcardSize(universe, f, pattern, style)
    ELSE IF ~StatOk(f, pattern)
         THEN 0
         ELSE IF StatInfo(f, pattern).dir
              THEN DirSize(f, pattern)
              ELSE StatInfo(f, pattern).size

\* os.RemoveAll / rm -rf: an entry goes unless it, or something below it,
\* cannot be removed by the caller
RemoveTree(f, path, allowed) ==
    LET keep == {q \in DOMAIN f :
                    \/ q \notin Subtree(f, path)
                    \/ \E r \in Subtree(f, q) : f[r].prot \notin allowed}
    IN  [q \in keep |-> f[q]]

\* SudoManager.EnsureSudo as the cleaner sees it: ok is whether sudo accepts
\* the cached or the typed credentials
EnsureSudo(ok) ==
    [err |-> IF ok THEN "nil" ELSE "sudo authentication failed", HasSudo |-> ok]

deleteSinglePath(f, path, useSudo, sudoOk, hasSudo) ==
    IF ~StatOk(f, path)
    THEN [fs |-> f, err |-> "nil", HasSudo |-> hasSudo]
    ELSE IF useSudo
         THEN IF EnsureSudo(sudoOk).err /= "nil"
              THEN [fs |-> f, err |-> "sudo rm failed", HasSudo |-> EnsureSudo(sudoOk).HasSudo]
              ELSE LET g == RemoveTree(f, Clean(path), {"user", "root"})
                   IN  [fs |-> g,
                        err |-> IF StatOk(g, path) THEN "sudo rm failed" ELSE "nil",
                        HasSudo |-> EnsureSudo(sudoOk).HasSudo]
         ELSE IF StatInfo(f, path).dir
              THEN LET g == RemoveTree(f, Clean(path), {"user"})
                   IN  [fs |-> g,
                        err |-> IF StatOk(g, path) THEN "remove directory failed" ELSE "nil",
                        HasSudo |-> hasSudo]
              ELSE IF StatInfo(f, path).prot = "user"
                   THEN [fs |-> [q \in DOMAIN f \ {Clean(path)} |-> f[q]],
                         err |-> "nil", HasSudo |-> hasSudo]
                   ELSE [fs |-> f, err |-> "remove file failed", HasSudo |-> hasSudo]

DeleteFailedAny(lastErr, deletedCount) ==
    lastErr /= "nil"

\* if lastErr != nil && deletedCount == 0
DeleteFailed(lastErr, deletedCount) ==
    lastErr /= "nil" /\ deletedCount = 0

RECURSIVE DeleteLoop(_, _, _, _)
\* for _, match := range matches
DeleteLoop(st, matches, useSudo, okSet) ==
    IF matches = <<>>
    THEN st
    ELSE LET r == deleteSinglePath(st.fs, Head(matches), useSudo,
                                   Head(matches) \in okSet, st.HasSudo)
         IN  DeleteLoop([fs |-> r.fs,
                         lastErr |-> IF r.err /= "nil" THEN r.err ELSE st.lastErr,
                         deletedCount |-> IF r.err /= "nil"
                                          THEN st.deletedCount
                                          ELSE st.deletedCount + 1,
                         log |-> Append(st.log, [path |-> Head(matches), err |-> r.err]),
                         HasSudo |-> r.HasSudo],
                        Tail(matches), useSudo, okSet)

\* okSet: the paths for whose removal EnsureSudo succeeds
deletePath(universe, f, path, useSudo, okSet, hasSudo) ==
    IF Contains(path, "*")
    THEN LET matches == Glob(universe, f, path)
             st == DeleteLoop([fs |-> f, lastErr |-> "nil", deletedCount |-> 0,
                               log |-> <<>>, HasSudo |-> hasSudo],
                              matches, useSudo, okSet)
         IN  IF matches = <<>>
             THEN [fs |-> f, err |-> "nil", log |-> <<>>, HasSudo |-> hasSudo]
             ELSE [fs |-> st.fs,
                   err |-> IF DeleteFailed(st.lastErr, st.deletedCount)
                           THEN "failed to delete any files"
                           ELSE "nil",
                   log |-> st.log,
                   HasSudo |-> st.HasSudo]
    ELSE LET r == deleteSinglePath(f, path, useSudo, path \in okSet, hasSudo)
         IN  [fs |-> r.fs, err |-> r.err,
              log |-> <<[path |-> path, err |-> r.err]>>, HasSudo |-> r.HasSudo]

CleanResult(target, actual, error) ==
    [Target |-> target.Name, Requested |-> target.Size, Actual |-> actual, Error |-> error]

NoMatchResultErr(target) ==
    CleanResult(target, 0, "no such file or directory")

\* len(matches) == 0: "No files to clean - this is OK"
NoMatchResult(target) ==
    CleanResult(target, 0, "nil")

\* cleanTarget; cmdOk is whether the target's command exits with status 0
cleanTarget(universe, f, target, okSet, cmdOk, style, hasSudo) ==
    IF target.IsCommand /\ target.Command /= ""
    THEN [result |-> CleanResult(target, target.Size,
                                 IF cmdOk THEN "nil" ELSE "command failed"),
          fs |-> f, HasSudo |-> hasSudo, log |-> <<>>, delErr |-> "none",
          ran |-> <<target.Command>>]
    ELSE LET path == ExpandPath(target.Path)
             matches == Glob(universe, f, path)
             actualBefore == calculateActualSize(universe, f, path, style)
             del == deletePath(universe, f, path, target.RequiresSudo, okSet, hasSudo)
             actualAfter == calculateActualSize(universe, del.fs, path, style)
         IN  IF matches = <<>>
             THEN [result |-> NoMatchResult(target),
                   fs |-> f, HasSudo |-> hasSudo, log |-> <<>>, delErr |-> "none",
                   ran |-> <<>>]
             ELSE IF del.err /= "nil"
                  THEN [result |-> CleanResult(target, 0, "failed to delete"),
                        fs |-> del.fs, HasSudo |-> del.HasSudo, log |-> del.log,
                        delErr |-> del.err, ran |-> <<>>]
                  ELSE [result |-> CleanResult(target, actualBefore - actualAfter, "nil"),
                        fs |-> del.fs, HasSudo |-> del.HasSudo, log |-> del.log,
                        delErr |-> del.err, ran |-> <<>>]

(***************************************************************************)
(* app.scanTargets and Cleaner.CleanTargets                                *)
(***************************************************************************)
Selections ==
    {sel \in SUBSET (1..Len(Catalog)) : Cardinality(sel) <= MaxSelected}

\* the state in which the user presses 's': a tree, and the targets toggled
CleanInit ==
    /\ fs \in CleanTrees
    /\ ScanIdle
    /\ DeleteIdle
    /\ MeasureIdle
    /\ SudoIdle
    /\ ViewIdle
    /\ \E sel \in Selections :
           targets = [i \in 1..Len(Catalog) |-> [Catalog[i] EXCEPT !.Selected = i \in sel]]
    /\ cleanPc = "idle"
    /\ ci = 0
    /\ results = <<>>
    /\ totalSaved = 0
    /\ HasSudo = FALSE
    /\ findStyle \in {"gnu", "bsd"}
    /\ preErr = "none"
    /\ fsAtCall = fs
    /\ fsBefore = fs
    /\ stepIdx = 0
    /\ delLog = <<>>
    /\ delErr = "none"
    /\ cmdLog = <<>>
    /\ cleaned = {}
    /\ targetsAtCall = targets
    /\ listed = {}

\* models.HasSelection: some target is selected
HasSelection(ts) ==
    {i \in 1..Len(ts) : ts[i].Selected} /= {}

\* app.scanTargets: the size of every selected target is measured
ScanTargets ==
    /\ cleanPc \in {"idle", "returned"}
    /\ HasSelection(targets)
    /\ \E est \in CommandEstimates :
           targets' = [i \in 1..Len(targets) |->
                          IF targets[i].Selected
                          THEN [targets[i] EXCEPT !.Size =
                                   CalculateSizeForTarget(CleanUniverse, fs, targets[i], est)]
                          ELSE targets[i]]
    /\ cleanPc' = "scanned"
    /\ targetsAtCall' = targets'
    /\ UNCHANGED <<viewVars, fs, scanVars, delVars, measVars, sudoVars, ci, results, totalSaved, HasSudo, findStyle,
                   preErr, fsAtCall, fsBefore, stepIdx, delLog, delErr, cmdLog, cleaned,
                   listed>>

\* the results screen of scanTargets, key " ": the target under the cursor is
\* toggled; its Size stays what the latest scan (or the catalog) left
ToggleResult ==
    /\ cleanPc = "scanned"
    /\ \E at \in 1..Len(targets) :
           LET toggled == [targets EXCEPT ![at].Selected = ~targets[at].Selected]
           IN  /\ Cardinality({i \in 1..Len(toggled) : toggled[i].Selected}) <= MaxSelected
               /\ targets' = toggled
    /\ targetsAtCall' = targets'
    /\ UNCHANGED <<viewVars, fs, scanVars, delVars, measVars, sudoVars, cleanPc, ci, results, totalSaved, HasSudo, findStyle,
                   preErr, fsAtCall, fsBefore, stepIdx, delLog, delErr, cmdLog, cleaned,
                   listed>>

\* Terminal.PrintConfirm: the names under "The following will be deleted:"
PrintConfirm(ts) ==
    {ts[i].Name : i \in {j \in 1..Len(ts) : ts[j].Selected /\ ts[j].Size > 0}}

NeedsSudo(ts) ==
    \E i \in 1..Len(ts) : ts[i].Selected /\ ts[i].RequiresSudo

AbortNever(err) ==
    FALSE

\* if err := c.SudoManager.EnsureSudo(); err != nil { return results, 0 }
AbortOnSudoError(err) ==
    err /= "nil"

\* key "c" on the results screen, "y" on the confirmation screen, then
\* CleanTargets up to its loop: the pre-check for elevation
CleanStart ==
    /\ cleanPc = "scanned"
    /\ HasSelection(targets)
    /\ listed' = PrintConfirm(targets)
    /\ targetsAtCall' = targets
    /\ results' = <<>>
    /\ totalSaved' = 0
    /\ fsAtCall' = fs
    /\ cmdLog' = <<>>
    /\ stepIdx' = 0
    /\ delLog' = <<>>
    /\ delErr' = "none"
    /\ IF NeedsSudo(targets)
       THEN \E ok \in BOOLEAN :
               /\ HasSudo' = EnsureSudo(ok).HasSudo
               /\ preErr' = EnsureSudo(ok).err
               /\ IF AbortOnSudoError(EnsureSudo(ok).err)
                  THEN cleanPc' = "returned" /\ ci' = 0
                  ELSE cleanPc' = "loop" /\ ci' = 1
       ELSE /\ cleanPc' = "loop"
            /\ ci' = 1
            /\ preErr' = "none"
            /\ UNCHANGED HasSudo
    /\ UNCHANGED <<viewVars, fs, scanVars, delVars, measVars, sudoVars, targets, findStyle, fsBefore, cleaned>>

AddSavedAlways(total, result) ==
    total + result.Actual

\* if result.Error == nil { totalSaved += result.Actual ... }
AddSaved(total, result) ==
    IF result.Error = "nil" THEN total + result.Actual ELSE total

ResetSizeAlways(ts, i, result) ==
    [ts EXCEPT ![i].Size = 0]

\* if result.Error == nil { ... target.Size = 0 }
ResetSize(ts, i, result) ==
    IF result.Error = "nil" THEN [ts EXCEPT ![i].Size = 0] ELSE ts

NextIndexAbort(i, err) ==
    IF err /= "nil" THEN Len(targets) + 1 ELSE i + 1

\* the loop goes on to the next target whatever the result
NextIndex(i, err) ==
    i + 1

\* the inputs of one cleanTarget call that the environment decides
SudoOutcomes(target) ==
    IF target.RequiresSudo /\ ~(target.IsCommand /\ target.Command /= "")
    THEN SUBSET {q \in DOMAIN fs : Match(ExpandPath(target.Path), q)}
    ELSE {{}}

CommandOutcomes(target) ==
    IF target.IsCommand /\ target.Command /= "" THEN BOOLEAN ELSE {TRUE}

SkipsNone(target) ==
    FALSE

\* if !targets[i].Selected { continue }
Skips(target) ==
    ~target.Selected

\* one iteration of `for i := range targets`
CleanStep ==
    /\ cleanPc = "loop"
    /\ ci <= Len(targets)
    /\ IF Skips(targets[ci])
       THEN /\ ci' = ci + 1
            /\ stepIdx' = 0
            /\ UNCHANGED <<fs, targets, results, totalSaved, HasSudo, fsBefore,
                           delLog, delErr, cmdLog>>
       ELSE \E okSet \in SudoOutcomes(targets[ci]), cmdOk \in CommandOutcomes(targets[ci]) :
               \E out \in {cleanTarget(CleanUniverse, fs, targets[ci], okSet, cmdOk,
                                       findStyle, HasSudo)} :
                   /\ results' = Append(results, out.result)
                   /\ totalSaved' = AddSaved(totalSaved, out.result)
                   /\ targets' = ResetSize(targets, ci, out.result)
                   /\ fs' = out.fs
                   /\ HasSudo' = out.HasSudo
                   /\ fsBefore' = fs
                   /\ stepIdx' = ci
                   /\ delLog' = out.log
                   /\ delErr' = out.delErr
                   /\ cmdLog' = cmdLog \o out.ran
                   /\ ci' = NextIndex(ci, out.result.Error)
    /\ UNCHANGED <<viewVars, scanVars, delVars, measVars, sudoVars, cleanPc, findStyle, preErr, fsAtCall, cleaned,
                   targetsAtCall, listed>>

\* return results, totalSaved
CleanReturn ==
    /\ cleanPc = "loop"
    /\ ci > Len(targets)
    /\ cleanPc' = "returned"
    /\ cleaned' = cleaned \cup
                  {results[k].Target : k \in {j \in 1..Len(results) :
                                                 /\ results[j].Error = "nil"
                                                 /\ results[j].Actual > 0}}
    /\ UNCHANGED <<viewVars, fs, scanVars, delVars, measVars, sudoVars, targets, ci, results, totalSaved, HasSudo, findStyle,
                   preErr, fsAtCall, fsBefore, stepIdx, delLog, delErr, cmdLog,
                   targetsAtCall, listed>>

CleanNext ==
    \/ ScanTargets
    \/ CleanStart
    \/ CleanStep
    \/ CleanReturn

CleanSpec ==
    CleanInit /\ [][CleanNext]_vars

\* one pass through the cleanup screens, with the toggling of the results
\* screen: scan, toggle, confirm, clean
\* a.scanTargets() runs once per pass of runCleanup
ConfirmScan ==
    /\ cleanPc = "idle"
    /\ ScanTargets

ConfirmNext ==
    \/ ConfirmScan
    \/ ToggleResult
    \/ CleanStart
    \/ CleanStep
    \/ CleanReturn

\* the trees of that pass: everything in them is the user's to remove
ConfirmTrees ==
    {t \in CleanTrees :
        /\ CacheF2 \notin DOMAIN t
        /\ LogL1 \notin DOMAIN t
        /\ \A p \in DOMAIN t \ {LogL2} : t[p].prot = "user"}

ConfirmInit ==
    /\ CleanInit
    /\ fs \in ConfirmTrees

ConfirmSpec ==
    ConfirmInit /\ [][ConfirmNext]_vars

(***************************************************************************)
(* Cleaner.DeleteFiles, DeleteBigFiles, DeleteDuplicates, DeleteOldFiles   *)
(***************************************************************************)
MaxListed ==
    2

MaxMembers ==
    3

\* the trees of the delete operations: f1 is absent, the user's or root's,
\* f2 the user's or root's, the sub-directory absent or the user's, and the
\* log l1 is root's and outside the home directory
DeleteTrees ==
    {t \in CleanTrees :
        /\ CacheF2 \in DOMAIN t
        /\ LogL1 \in DOMAIN t
        /\ CacheSub \in DOMAIN t => (CacheG1 \in DOMAIN t /\ t[CacheG2].prot = "user")}

RECURSIVE Listings(_, _)
\* the lists of at most n distinct paths
Listings(paths, n) ==
    IF n = 0
    THEN {<<>>}
    ELSE {<<>>} \cup UNION {{<<q>> \o rest : rest \in Listings(paths \ {q}, n - 1)} : q \in paths}

\* what a scan of big or old files may have listed
FileLists ==
    Listings({CacheF1, CacheF2, LogL1}, MaxListed)

DuplicateGroup(files) ==
    [Files |-> files]

RECURSIVE GroupLists(_, _)
\* what ScanDuplicates may have returned: groups of two or more paths, no
\* path in two groups
GroupLists(paths, n) ==
    IF n = 0
    THEN {<<>>}
    ELSE {<<>>} \cup
         UNION {{<<DuplicateGroup(g)>> \o rest :
                    rest \in GroupLists(paths \ {g[k] : k \in 1..Len(g)}, n - 1)} :
                g \in {l \in Listings(paths, MaxMembers) : Len(l) >= 2}}

\* the maps the result screens build, and maps with keys past the list
SelectionMaps ==
    UNION {[keys -> BOOLEAN] : keys \in SUBSET (0..MaxListed)}

\* the call of one of the three operations
DeleteInit ==
    /\ fs \in DeleteTrees
    /\ ScanIdle
    /\ CleanIdle
    /\ MeasureIdle
    /\ SudoIdle
    /\ ViewIdle
    /\ delKind \in {"big", "old", "dup"}
    /\ IF delKind = "dup"
       THEN /\ delFiles = <<>>
            /\ delGroups \in GroupLists({CacheF1, CacheF2, CacheG1, CacheG2}, MaxListed)
       ELSE /\ delFiles \in FileLists
            /\ delGroups = <<>>
    /\ selected \in SelectionMaps
    /\ selKeysLeft = DOMAIN selected
    /\ delPaths = <<>>
    /\ delIdx = 0
    /\ totalDeleted = 0
    /\ delPc = "collect"
    /\ fsAtDelete = fs
    /\ rmLog = <<>>

SelectedPathsAny(files, sel, i) ==
    IF i < Len(files) THEN <<files[i + 1]>> ELSE <<>>

\* if sel && i < len(files) { paths = append(paths, files[i].Path) }
SelectedPaths(files, sel, i) ==
    IF sel /\ i < Len(files) THEN <<files[i + 1]>> ELSE <<>>

RestOfGroupAll(groupList, sel, i) ==
    IF ~sel \/ i >= Len(groupList) THEN <<>> ELSE groupList[i + 1].Files

\* if !sel || i >= len(groups) { continue }; for j := 1; j < len(group.Files); j++
RestOfGroup(groupList, sel, i) ==
    IF ~sel \/ i >= Len(groupList) THEN <<>> ELSE Tail(groupList[i + 1].Files)

\* one iteration of `for i, sel := range selected`, in the order the map gives
Collect(more) ==
    /\ delPc = "collect"
    /\ \E i \in selKeysLeft :
           /\ delPaths' = delPaths \o more[i]
           /\ selKeysLeft' = selKeysLeft \ {i}
    /\ UNCHANGED <<viewVars, fs, scanVars, cleanVars, measVars, sudoVars, delKind, delFiles, delGroups, selected,
                   delIdx, totalDeleted, delPc, fsAtDelete, rmLog>>

DeleteBigFiles ==
    /\ delKind = "big"
    /\ Collect([i \in selKeysLeft |-> SelectedPaths(delFiles, selected[i], i)])

DeleteOldFiles ==
    /\ delKind = "old"
    /\ Collect([i \in selKeysLeft |-> SelectedPaths(delFiles, selected[i], i)])

DeleteDuplicates ==
    /\ delKind = "dup"
    /\ Collect([i \in selKeysLeft |-> RestOfGroup(delGroups, selected[i], i)])

\* deleted, _ := c.DeleteFiles(paths, progress)
CallDeleteFiles ==
    /\ delPc = "collect"
    /\ selKeysLeft = {}
    /\ delPc' = "delete"
    /\ delIdx' = 1
    /\ UNCHANGED <<viewVars, fs, scanVars, cleanVars, measVars, sudoVars, delKind, delFiles, delGroups, selected,
                   selKeysLeft, delPaths, totalDeleted, fsAtDelete, rmLog>>

\* os.Remove of a name the caller has stat'ed
Remove(f, file) ==
    IF /\ f[Clean(file)].prot = "user"
       /\ Subtree(f, Clean(file)) = {Clean(file)}
    THEN [fs |-> [q \in DOMAIN f \ {Clean(file)} |-> f[q]], err |-> "nil"]
    ELSE [fs |-> f, err |-> "remove failed"]

\* c.SudoManager.Run("rm", "-f", file)
SudoRm(f, file, sudoOk) ==
    IF EnsureSudo(sudoOk).err /= "nil"
    THEN [fs |-> f, err |-> EnsureSudo(sudoOk).err]
    ELSE IF f[Clean(file)].dir
         THEN [fs |-> f, err |-> "rm failed"]
         ELSE [fs |-> [q \in DOMAIN f \ {Clean(file)} |-> f[q]], err |-> "nil"]

CountedAlways(size, deleteErr) ==
    size

\* if deleteErr == nil { totalDeleted += size }
Counted(size, deleteErr) ==
    IF deleteErr = "nil" THEN size ELSE 0

\* the body of `for _, file := range files` of DeleteFiles
deleteFile(f, file, sudoOk, hasSudo) ==
    IF ~StatOk(f, file)
    THEN [fs |-> f, freed |-> 0, log |-> <<>>, HasSudo |-> hasSudo]
    ELSE LET size == StatInfo(f, file).size
             needsSudo == ~HasPrefix(file, Home)
             first == Remove(f, file)
             retry == SudoRm(f, file, sudoOk)
             out == IF needsSudo /\ first.err /= "nil" THEN retry ELSE first
         IN  [fs |-> out.fs,
              freed |-> Counted(size, out.err),
              log |-> <<[file |-> file, size |-> size, err |-> out.err]>>,
              HasSudo |-> IF needsSudo /\ first.err /= "nil"
                          THEN EnsureSudo(sudoOk).HasSudo
                          ELSE hasSudo]

\* one iteration of DeleteFiles
DeleteFiles ==
    /\ delPc = "delete"
    /\ delIdx <= Len(delPaths)
    /\ \E sudoOk \in BOOLEAN :
           \E out \in {deleteFile(fs, delPaths[delIdx], sudoOk, HasSudo)} :
               /\ fs' = out.fs
               /\ totalDeleted' = totalDeleted + out.freed
               /\ rmLog' = rmLog \o out.log
               /\ HasSudo' = out.HasSudo
    /\ delIdx' = delIdx + 1
    /\ UNCHANGED <<viewVars, scanVars, cleanState, measVars, sudoVars, delKind, delFiles, delGroups, selected,
                   selKeysLeft, delPaths, delPc, fsAtDelete>>

\* return totalDeleted, nil
DeleteReturn ==
    /\ delPc = "delete"
    /\ delIdx > Len(delPaths)
    /\ delPc' = "done"
    /\ UNCHANGED <<viewVars, fs, scanVars, cleanVars, measVars, sudoVars, delKind, delFiles, delGroups, selected,
                   selKeysLeft, delPaths, delIdx, totalDeleted, fsAtDelete, rmLog>>

DeleteNext ==
    \/ DeleteBigFiles
    \/ DeleteOldFiles
    \/ DeleteDuplicates
    \/ CallDeleteFiles
    \/ DeleteFiles
    \/ DeleteReturn

DeleteSpec ==
    DeleteInit /\ [][DeleteNext]_vars

(***************************************************************************)
(* Cleaner.calculateActualSize, called on its own                          *)
(***************************************************************************)
\* the patterns cleanTarget hands to calculateActualSize, and plain paths
MeasurePatterns ==
    {ExpandPath(Catalog[i].Path) : i \in 1..Len(Catalog)}
        \cup {CacheDir, CacheF2, LogDir, LogL1, Join(CacheSub, <<"*">>)}

MeasureInit ==
    /\ CleanInit
    /\ targets = Catalog

\* the find branch of calculateActualSize: whether find failed, else the total
findSize(universe, f, pattern, style) ==
    LET found == FindFiles(universe, f, BeforeStar(pattern), style)
    IN  [err |-> found.err,
         total |-> IF found.err THEN 0 ELSE SumMatched(f, pattern, found.files)]

\* one call of calculateActualSize, with what each of its two strategies
\* computes for the pattern and what the scan had shown for it
Measure ==
    /\ mPc = "idle"
    /\ \E pattern \in MeasurePatterns :
           /\ mPattern' = pattern
           /\ mActual' = calculateActualSize(CleanUniverse, fs, pattern, findStyle)
           /\ mFound' = findSize(CleanUniverse, fs, pattern, findStyle)
           /\ mWalked' = walkCalculateSize(fs, BeforeStar(pattern), pattern)
           /\ mEstimate' = CalculateSize(CleanUniverse, fs, pattern)
    /\ mPc' = "measured"
    /\ UNCHANGED <<viewVars, fs, scanVars, cleanVars, delVars, sudoVars>>

MeasureNext ==
    Measure

MeasureSpec ==
    MeasureInit /\ [][MeasureNext]_vars

(***************************************************************************)
(* SudoManager: EnsureSudo and the keepAlive goroutines                    *)
(***************************************************************************)
\* Timeout: 5 * time.Minute
Timeout ==
    5

Goroutines ==
    1..MaxKeepAlive

SudoInit ==
    /\ fs \in {t \in CleanTrees : DOMAIN t = {CacheDir, LogDir, LogL2}}
    /\ ScanIdle
    /\ CleanIdle
    /\ DeleteIdle
    /\ MeasureIdle
    /\ SudoIdle
    /\ ViewIdle

Access(by, field, holder) ==
    [by |-> by, field |-> field, locked |-> (mu = holder)]

\* time passes
Tick ==
    /\ now < MaxTime
    /\ now' = now + 1
    /\ UNCHANGED <<staleCheck, viewVars, fs, scanVars, cleanVars, delVars, measVars, mu, LastAuth, ensurePc, keepPc, access>>

\* EnsureSudo is called: s.mu.Lock(); defer s.mu.Unlock()
EnsureLock ==
    /\ ensurePc = "idle"
    /\ mu = "none"
    /\ mu' = "main"
    /\ ensurePc' = "check"
    /\ UNCHANGED <<staleCheck, viewVars, fs, scanVars, cleanVars, delVars, measVars, LastAuth, now, keepPc, access>>

\* if s.HasSudo && time.Since(s.LastAuth) < s.Timeout
EnsureCheck ==
    /\ ensurePc = "check"
    /\ ensurePc' = IF HasSudo /\ now - LastAuth < Timeout THEN "refresh" ELSE "prompt"
    /\ access' = Access("EnsureSudo", IF HasSudo THEN "LastAuth" ELSE "HasSudo", "main")
    /\ UNCHANGED <<staleCheck, viewVars, fs, scanVars, cleanVars, delVars, measVars, mu, LastAuth, now, keepPc>>

\* sudo -n true; on success s.LastAuth = time.Now() and return nil
EnsureRefresh ==
    /\ ensurePc = "refresh"
    /\ \E ok \in BOOLEAN :
           IF ok
           THEN /\ LastAuth' = now
                /\ access' = Access("EnsureSudo", "LastAuth", "main")
                /\ ensurePc' = "unlock"
           ELSE /\ UNCHANGED <<LastAuth, access>>
                /\ ensurePc' = "prompt"
    /\ UNCHANGED <<staleCheck, viewVars, fs, scanVars, cleanVars, delVars, measVars, mu, now, keepPc>>

\* sudo -v; s.HasSudo = false and an error, or s.HasSudo = true
EnsurePrompt ==
    /\ ensurePc = "prompt"
    /\ \E ok \in BOOLEAN :
           IF ok
           THEN /\ \E k \in Goroutines : keepPc[k] = "off"
                /\ HasSudo' = TRUE
                /\ ensurePc' = "stamp"
                /\ staleCheck' = {k \in Goroutines : keepPc[k] = "lock_clear"}
           ELSE /\ HasSudo' = FALSE
                /\ ensurePc' = "unlock"
                /\ UNCHANGED staleCheck
    /\ access' = Access("EnsureSudo", "HasSudo", "main")
    /\ UNCHANGED <<viewVars, fs, scanVars, cleanState, delVars, measVars, mu, LastAuth, now, keepPc>>

\* s.LastAuth = time.Now(); go s.keepAlive()
EnsureStamp ==
    /\ ensurePc = "stamp"
    /\ LastAuth' = now
    /\ \E k \in Goroutines :
           /\ keepPc[k] = "off"
           /\ keepPc' = [keepPc EXCEPT ![k] = "wait"]
    /\ ensurePc' = "unlock"
    /\ access' = Access("EnsureSudo", "LastAuth", "main")
    /\ UNCHANGED <<staleCheck, viewVars, fs, scanVars, cleanVars, delVars, measVars, mu, now>>

\* the deferred s.mu.Unlock()
EnsureUnlock ==
    /\ ensurePc = "unlock"
    /\ mu' = "none"
    /\ ensurePc' = "idle"
    /\ UNCHANGED <<staleCheck, viewVars, fs, scanVars, cleanVars, delVars, measVars, LastAuth, now, keepPc, access>>

\* for range ticker.C: a tick arrives
KeepTick(k) ==
    /\ keepPc[k] = "wait"
    /\ keepPc' = [keepPc EXCEPT ![k] = "lock_read"]
    /\ UNCHANGED <<staleCheck, viewVars, fs, scanVars, cleanVars, delVars, measVars, mu, LastAuth, now, ensurePc, access>>

\* s.mu.Lock() of the goroutine, before the access its position names
KeepLock(k) ==
    /\ keepPc[k] \in {"lock_read", "lock_clear", "lock_stamp"}
    /\ mu = "none"
    /\ mu' = ToString(k)
    /\ keepPc' = [keepPc EXCEPT ![k] = CASE keepPc[k] = "lock_read" -> "read"
                                         [] keepPc[k] = "lock_clear" -> "clear"
                                         [] OTHER -> "stamp"]
    /\ UNCHANGED <<staleCheck, viewVars, fs, scanVars, cleanVars, delVars, measVars, LastAuth, now, ensurePc, access>>

\* if !s.HasSudo { s.mu.Unlock(); return }; s.mu.Unlock()
KeepRead(k) ==
    /\ keepPc[k] = "read"
    /\ mu' = "none"
    /\ keepPc' = [keepPc EXCEPT ![k] = IF HasSudo THEN "run" ELSE "off"]
    /\ access' = Access("keepAlive", "HasSudo", ToString(k))
    /\ UNCHANGED <<staleCheck, viewVars, fs, scanVars, cleanVars, delVars, measVars, LastAuth, now, ensurePc>>

AfterRefreshUnlocked ==
    "stamp"

\* after a successful sudo -n true: s.mu.Lock(), then s.LastAuth = time.Now()
AfterRefresh ==
    "lock_stamp"

\* sudo -n true in the goroutine
KeepRun(k) ==
    /\ keepPc[k] = "run"
    /\ \E ok \in BOOLEAN :
           keepPc' = [keepPc EXCEPT ![k] = IF ok THEN AfterRefresh ELSE "lock_clear"]
    /\ UNCHANGED <<staleCheck, viewVars, fs, scanVars, cleanVars, delVars, measVars, mu, LastAuth, now, ensurePc, access>>

AfterExpiredGoesOn ==
    "wait"

\* after a failed sudo -n true and s.HasSudo = false: return
AfterExpired ==
    "off"

\* s.HasSudo = false; s.mu.Unlock(); return
KeepClear(k) ==
    /\ keepPc[k] = "clear"
    /\ HasSudo' = FALSE
    /\ mu' = "none"
    /\ keepPc' = [keepPc EXCEPT ![k] = AfterExpired]
    /\ staleCheck' = staleCheck \ {k}
    /\ access' = Access("keepAlive", "HasSudo", ToString(k))
    /\ UNCHANGED <<viewVars, fs, scanVars, cleanState, delVars, measVars, LastAuth, now, ensurePc>>

\* s.LastAuth = time.Now(); s.mu.Unlock()
KeepStamp(k) ==
    /\ keepPc[k] = "stamp"
    /\ LastAuth' = now
    /\ mu' = "none"
    /\ keepPc' = [keepPc EXCEPT ![k] = "wait"]
    /\ access' = Access("keepAlive", "LastAuth", ToString(k))
    /\ UNCHANGED <<staleCheck, viewVars, fs, scanVars, cleanVars, delVars, measVars, now, ensurePc>>

keepAlive ==
    \E k \in Goroutines :
        \/ KeepTick(k)
        \/ KeepLock(k)
        \/ KeepRead(k)
        \/ KeepRun(k)
        \/ KeepClear(k)
        \/ KeepStamp(k)

SudoNext ==
    \/ Tick
    \/ EnsureLock
    \/ EnsureCheck
    \/ EnsureRefresh
    \/ EnsurePrompt
    \/ EnsureStamp
    \/ EnsureUnlock
    \/ keepAlive

SudoSpec ==
    SudoInit /\ [][SudoNext]_vars

\* EnsureSudo and the goroutines while the clock stands still: whether a
\* goroutine gets the lock and returns depends on no timestamp
SudoLiveNext ==
    \/ EnsureLock
    \/ EnsureCheck
    \/ EnsureRefresh
    \/ EnsurePrompt
    \/ EnsureStamp
    \/ EnsureUnlock
    \/ keepAlive

\* Scheduling: a call of EnsureSudo that has the lock runs to its return (the
\* sudo commands terminate), a goroutine that can step does, and sync.Mutex
\* hands the lock to a goroutine that keeps waiting for it (starvation mode).
\* Nothing obliges the program to call EnsureSudo or the ticker to fire.
SudoFairness ==
    /\ WF_vars(EnsureCheck \/ EnsureRefresh \/ EnsurePrompt \/ EnsureStamp \/ EnsureUnlock)
    /\ \A k \in Goroutines :
           /\ SF_vars(KeepLock(k))
           /\ WF_vars(KeepRead(k) \/ KeepRun(k) \/ KeepClear(k) \/ KeepStamp(k))

SudoLiveSpec ==
    SudoInit /\ [][SudoLiveNext]_vars /\ SudoFairness

(***************************************************************************)
(* utils.ShortenPath                                                       *)
(***************************************************************************)
MaxPathLen ==
    6

\* the bytes a path is made of here
PathBytes ==
    {"/", "a", "."}

BoundedSeq(S, n) ==
    UNION {[1..m -> S] : m \in 0..n}

Ellipsis ==
    <<".", ".", ".">>

ShortenPathOneMore(path, maxLen) ==
    IF Len(path) <= maxLen
    THEN path
    ELSE IF maxLen <= 3
         THEN Ellipsis
         ELSE Ellipsis \o SubSeq(path, Len(path) - maxLen + 3, Len(path))

\* "..." + path[len(path)-maxLen+3:]; len and the slice count bytes
ShortenPath(path, maxLen) ==
    IF Len(path) <= maxLen
    THEN path
    ELSE IF maxLen <= 3
         THEN Ellipsis
         ELSE Ellipsis \o SubSeq(path, Len(path) - maxLen + 3 + 1, Len(path))

ShortenInit ==
    /\ fs \in {t \in CleanTrees : DOMAIN t = {CacheDir, LogDir, LogL2}}
    /\ ScanIdle
    /\ CleanIdle
    /\ DeleteIdle
    /\ MeasureIdle
    /\ SudoIdle
    /\ shPc = "called"
    /\ shPath \in BoundedSeq(PathBytes, MaxPathLen)
    /\ shMaxLen \in -1..(MaxPathLen + 1)
    /\ shOut = <<>>
    /\ FormatIdle
    /\ BigIdle
    /\ MenuIdle

Shorten ==
    /\ shPc = "called"
    /\ shOut' = ShortenPath(shPath, shMaxLen)
    /\ shPc' = "returned"
    /\ UNCHANGED <<fs, scanVars, cleanVars, delVars, measVars, sudoVars, shPath, shMaxLen,
                   fbPc, fbWhich, fbBytes, fbOut, bigFiles, minSize, menuVars>>

ShortenNext ==
    Shorten

ShortenSpec ==
    ShortenInit /\ [][ShortenNext]_vars

(***************************************************************************)
(* formatBytes (internal/ltui and internal/scanner)                        *)
(*                                                                         *)
(* An int64 byte count is a sign and its base-1024 digits, lowest first,   *)
(* without leading zeros: b / unit drops the lowest digit and n >= unit    *)
(* says that two digits or more are left.                                  *)
(***************************************************************************)
\* const unit = 1024
Unit ==
    1024

\* an int64 has 63 value bits: six digits of ten bits and one of three
Int64Digits ==
    7

Int64TopDigit ==
    7

\* the digit values the byte counts are made of
DigitValues ==
    {0, 1, 255, 256, 512, 1023}

\* the non-negative int64 values with two significant digits at most, which
\* float64 holds and divides by a power of 1024 exactly
ByteCounts ==
    {ds \in BoundedSeq(DigitValues, Int64Digits) :
        /\ ds /= <<>> => ds[Len(ds)] /= 0
        /\ Len(ds) = Int64Digits => ds[Len(ds)] <= Int64TopDigit
        /\ \A i \in 1..(Len(ds) - 2) : ds[i] = 0}

\* b < unit
BelowUnit(b) ==
    b.neg \/ Len(b.digits) <= 1

\* for n := b / unit; n >= unit; n /= unit { div *= unit; exp++ }
RECURSIVE UnitLoop(_, _)
UnitLoop(n, exp) ==
    IF Len(n) >= 2 THEN UnitLoop(Tail(n), exp + 1) ELSE exp

\* fmt.Sprintf("%.1f", float64(b)/float64(div)) for div = unit^(exp+1): the
\* quotient is digit exp+2 and the fraction digit exp+1 over unit, printed
\* with one decimal, halves rounded to even
OneDecimal(b, exp) ==
    LET tenths == (b.digits[exp + 2] * Unit + b.digits[exp + 1]) * 10
        q == tenths \div Unit
        r == tenths % Unit
        rounded == IF 2 * r > Unit \/ (2 * r = Unit /\ q % 2 = 1) THEN q + 1 ELSE q
    IN  <<rounded \div 10, rounded % 10>>

\* units of the formatBytes of internal/ltui
UnitsOfLtui ==
    <<"KB", "MB", "GB", "TB", "PB">>

\* units of the formatBytes of internal/scanner
UnitsOfScanner ==
    <<"KB", "MB", "GB", "TB">>

UnitsOf(which) ==
    IF which = "ltui" THEN UnitsOfLtui ELSE UnitsOfScanner

\* the two formatBytes: what is returned, or the index-out-of-range panic
\* of units[exp]
formatBytes(which, b) ==
    IF BelowUnit(b)
    THEN [panic |-> FALSE, out |-> [number |-> <<>>, unit |-> "B"]]
    ELSE LET exp == UnitLoop(Tail(b.digits), 0)
             units == UnitsOf(which)
         IN  IF exp + 1 > Len(units)
             THEN [panic |-> TRUE, out |-> [number |-> <<>>, unit |-> ""]]
             ELSE [panic |-> FALSE,
                   out |-> [number |-> IF which = "ltui" THEN OneDecimal(b, exp) ELSE <<>>,
                            unit |-> units[exp + 1]]]

FormatInit ==
    /\ fs \in {t \in CleanTrees : DOMAIN t = {CacheDir, LogDir, LogL2}}
    /\ ScanIdle
    /\ CleanIdle
    /\ DeleteIdle
    /\ MeasureIdle
    /\ SudoIdle
    /\ ShortenIdle
    /\ BigIdle
    /\ MenuIdle
    /\ fbPc = "called"
    /\ fbWhich \in {"ltui", "scanner"}
    /\ \E ds \in ByteCounts, neg \in BOOLEAN :
           /\ neg => ds /= <<>>
           /\ fbBytes = [neg |-> neg, digits |-> ds]
    /\ fbOut = [number |-> <<>>, unit |-> ""]

Format ==
    /\ fbPc = "called"
    /\ \E res \in {formatBytes(fbWhich, fbBytes)} :
           /\ fbPc' = IF res.panic THEN "panicked" ELSE "returned"
           /\ fbOut' = res.out
    /\ UNCHANGED <<fs, scanVars, cleanVars, delVars, measVars, sudoVars, shPc, shPath, shMaxLen,
                   shOut, fbWhich, fbBytes, bigFiles, minSize, menuVars>>

FormatNext ==
    Format

FormatSpec ==
    FormatInit /\ [][FormatNext]_vars

(***************************************************************************)
(* app.run: the menu loop and its screens                                  *)
(***************************************************************************)
\* how many keys the user presses
MaxKeys ==
    8

\* the trees of the menu: the cache holds f1 and f2, the log directory l1
MenuTrees ==
    {t \in DeleteTrees :
        /\ CacheF1 \in DOMAIN t
        /\ CacheSub \notin DOMAIN t
        /\ t[CacheF1].prot = "user"
        /\ t[CacheF2].prot = "user"}

MenuInit ==
    /\ fs \in MenuTrees
    /\ ScanIdle
    /\ CleanIdle
    /\ DeleteIdle
    /\ MeasureIdle
    /\ SudoIdle
    /\ ViewIdle

\* the variables of CleanTargets the screens do not write
cleanRest ==
    <<ci, results, totalSaved, HasSudo, findStyle, preErr, fsAtCall, fsBefore, stepIdx,
      delLog, delErr, cmdLog, cleaned, targetsAtCall, listed>>

\* the screens with a list and a cursor
ListScreens ==
    {"targets", "results", "big", "dups", "old"}

\* the list of the screen shown
ShownList ==
    CASE screen \in {"targets", "results"} -> targets
      [] screen = "big" -> bigFiles
      [] screen = "dups" -> duplicateGroups
      [] screen = "old" -> oldFiles
      [] OTHER -> <<>>

\* selections[i] of a map[int]bool: false for a key that is absent
IsSet(sel, i) ==
    i \in DOMAIN sel /\ sel[i]

KeepSelections(old) ==
    old

\* a.selections = make(map[int]bool)
MakeSelections(old) ==
    <<>>

CanMoveDownOneMore(c, n) ==
    c < n

\* if a.cursor < len(list)-1
CanMoveDown(c, n) ==
    c < n - 1

\* a key is read
ReadKey ==
    /\ keysRead < MaxKeys
    /\ keysRead' = keysRead + 1

\* PrintMenu: "1" runCleanup, "2" runBigFiles, "3" runDuplicates, "4"
\* runOldFiles, each up to its first read of a key
MenuKey ==
    /\ screen = "menu"
    /\ ReadKey
    /\ \E key \in {"1", "2", "3", "4"} :
           /\ screen' = CASE key = "1" -> "targets"
                          [] key = "2" -> "bigconfig"
                          [] key = "3" -> "dupconfig"
                          [] OTHER -> "oldconfig"
           /\ cursor' = IF key = "1" THEN 0 ELSE cursor
    /\ UNCHANGED <<fs, scanVars, cleanVars, delVars, measVars, sudoVars, helperVars, bigFiles,
                   selections, duplicateGroups, oldFiles, picked>>

\* "q": os.Exit(0) on the screens of a list, return from app.run on the menu
QuitKey ==
    /\ screen \in ListScreens \cup {"menu", "dupconfig", "oldconfig"}
    /\ ReadKey
    /\ screen' = "exit"
    /\ UNCHANGED <<fs, scanVars, cleanVars, delVars, measVars, sudoVars, helperVars, bigFiles,
                   cursor, selections, duplicateGroups, oldFiles, picked>>

\* "b" on a list or on a configuration screen, and any key but "y" on the
\* confirmation: every function on the stack returns, the menu is shown
BackKey ==
    /\ \/ screen \in ListScreens \cup {"bigconfig", "dupconfig", "oldconfig"}
       \/ screen = "confirm" /\ cleanPc = "scanned"
    /\ ReadKey
    /\ screen' = "menu"
    /\ cleanPc' = "idle"
    /\ UNCHANGED <<fs, scanVars, targets, cleanRest, delVars, measVars, sudoVars, helperVars,
                   bigFiles, cursor, selections, duplicateGroups, oldFiles, picked>>

\* case "up": if a.cursor > 0 { a.cursor-- }
UpKey ==
    /\ screen \in ListScreens
    /\ ReadKey
    /\ cursor' = IF cursor > 0 THEN cursor - 1 ELSE cursor
    /\ UNCHANGED <<fs, scanVars, cleanVars, delVars, measVars, sudoVars, helperVars, bigFiles,
                   screen, selections, duplicateGroups, oldFiles, picked>>

\* case "down": if a.cursor < len(list)-1 { a.cursor++ }
DownKey ==
    /\ screen \in ListScreens
    /\ ReadKey
    /\ cursor' = IF CanMoveDown(cursor, Len(ShownList)) THEN cursor + 1 ELSE cursor
    /\ UNCHANGED <<fs, scanVars, cleanVars, delVars, measVars, sudoVars, helperVars, bigFiles,
                   screen, selections, duplicateGroups, oldFiles, picked>>

\* case " " of runCleanup and scanTargets:
\* a.targets[a.cursor].Selected = !a.targets[a.cursor].Selected, which panics
\* for an index out of range
SpaceTarget ==
    /\ screen \in {"targets", "results"}
    /\ ReadKey
    /\ IF cursor < Len(targets)
       THEN /\ targets' = [targets EXCEPT ![cursor + 1].Selected = ~targets[cursor + 1].Selected]
            /\ UNCHANGED screen
       ELSE /\ screen' = "panic"
            /\ UNCHANGED targets
    /\ UNCHANGED <<fs, scanVars, cleanPc, cleanRest, delVars, measVars, sudoVars, helperVars,
                   bigFiles, cursor, selections, duplicateGroups, oldFiles, picked>>

\* case "a" and case "n" of runCleanup
AllOrNoneKey ==
    /\ screen = "targets"
    /\ ReadKey
    /\ \E all \in BOOLEAN :
           targets' = [i \in 1..Len(targets) |-> [targets[i] EXCEPT !.Selected = all]]
    /\ UNCHANGED <<fs, scanVars, cleanPc, cleanRest, delVars, measVars, sudoVars, helperVars,
                   bigFiles, screen, cursor, selections, duplicateGroups, oldFiles, picked>>

\* case "s" of runCleanup and case "r" of scanTargets: a.scanTargets(), which
\* returns at once when nothing is selected, else measures the selected
\* targets and shows the results with the cursor on the first
ScanKey ==
    /\ screen \in {"targets", "results"}
    /\ ReadKey
    /\ IF HasSelection(targets)
       THEN /\ \E est \in CommandEstimates :
                   targets' = [i \in 1..Len(targets) |->
                                  IF targets[i].Selected
                                  THEN [targets[i] EXCEPT !.Size =
                                           CalculateSizeForTarget(CleanUniverse, fs, targets[i], est)]
                                  ELSE targets[i]]
            /\ cursor' = 0
            /\ screen' = "results"
            /\ cleanPc' = "scanned"
       ELSE /\ screen' = "menu"
            /\ cleanPc' = "idle"
            /\ UNCHANGED <<targets, cursor>>
    /\ UNCHANGED <<fs, scanVars, cleanRest, delVars, measVars, sudoVars, helperVars, bigFiles,
                   selections, duplicateGroups, oldFiles, picked>>

\* case "c" of scanTargets: confirmAndClean, up to its read of a key
CleanKey ==
    /\ screen = "results"
    /\ ReadKey
    /\ HasSelection(targets)
    /\ screen' = "confirm"
    /\ UNCHANGED <<fs, scanVars, cleanVars, delVars, measVars, sudoVars, helperVars, bigFiles,
                   cursor, selections, duplicateGroups, oldFiles, picked>>

\* "y" on the confirmation: a.cleanTargets() calls CleanTargets
ConfirmYes ==
    /\ screen = "confirm"
    /\ CleanStart

\* cleanTargets: "Target: Error" for every result with an error
errorDetails(rs) ==
    LET failed == SelectSeq(rs, LAMBDA r : r.Error /= "nil")
    IN  [i \in 1..Len(failed) |-> [Target |-> failed[i].Target, Error |-> failed[i].Error]]

\* cleanTargets: the details joined line by line, "" when there are none
lastError(rs) ==
    errorDetails(rs)

\* Terminal.PrintDone: the headline under the title, the lines below it and
\* whether a partial success is reported
PrintDone(saved, lastErr) ==
    IF lastErr /= <<>>
    THEN [headline |-> "Some operations failed:", lines |-> lastErr, partial |-> saved > 0]
    ELSE [headline |-> "Complete!", lines |-> <<>>, partial |-> FALSE]

\* the completion screen of cleanTargets, key "b"
CleanedBack ==
    /\ screen = "confirm"
    /\ cleanPc = "returned"
    /\ ReadKey
    /\ screen' = "menu"
    /\ cleanPc' = "idle"
    /\ UNCHANGED <<fs, scanVars, targets, cleanRest, delVars, measVars, sudoVars, helperVars,
                   bigFiles, cursor, selections, duplicateGroups, oldFiles, picked>>

\* what a scan may list: regular files that exist, each once
Listable(paths) ==
    {l \in Listings(paths, MaxListed) : \A i \in 1..Len(l) : l[i] \in DOMAIN fs}

\* sort.Slice(a.bigFiles, ...): the sizes do not increase along the list
SortedBySize(list) ==
    \A i \in 1..(Len(list) - 1) : list[i].Size >= list[i + 1].Size

OldFile(path, size) ==
    [Path |-> path, Size |-> size]

\* the configuration screen of runBigFiles: "1".."4" scan, sort, empty the
\* selection map and show the list with the cursor on the first item
BigConfigKey ==
    /\ screen = "bigconfig"
    /\ ReadKey
    /\ bigFiles' \in {list \in {[i \in 1..Len(l) |-> BigFile(l[i], fs[l[i]].size)] :
                                  l \in Listable({CacheF1, CacheF2, LogL1})} :
                         SortedBySize(list)}
    /\ selections' = MakeSelections(selections)
    /\ cursor' = 0
    /\ picked' = {}
    /\ screen' = "big"
    /\ UNCHANGED <<fs, scanVars, cleanVars, delVars, measVars, sudoVars, helperVars,
                   duplicateGroups, oldFiles>>

\* runDuplicates, "s": scanDuplicates up to its first read of a key
DupConfigKey ==
    /\ screen = "dupconfig"
    /\ ReadKey
    /\ duplicateGroups' \in {gl \in GroupLists({CacheF1, CacheF2, LogL1}, MaxListed) :
                                \A i \in 1..Len(gl) : Range(gl[i].Files) \subseteq DOMAIN fs}
    /\ selections' = MakeSelections(selections)
    /\ cursor' = 0
    /\ picked' = {}
    /\ screen' = "dups"
    /\ UNCHANGED <<fs, scanVars, cleanVars, delVars, measVars, sudoVars, helperVars,
                   bigFiles, oldFiles>>

\* the configuration screen of runOldFiles: "1".."4" scan, empty the
\* selection map and show the list with the cursor on the first item
OldConfigKey ==
    /\ screen = "oldconfig"
    /\ ReadKey
    /\ oldFiles' \in {[i \in 1..Len(l) |-> OldFile(l[i], fs[l[i]].size)] :
                         l \in Listable({CacheF1, CacheF2, LogL1})}
    /\ selections' = MakeSelections(selections)
    /\ cursor' = 0
    /\ picked' = {}
    /\ screen' = "old"
    /\ UNCHANGED <<fs, scanVars, cleanVars, delVars, measVars, sudoVars, helperVars,
                   bigFiles, duplicateGroups>>

\* case " " of the three result screens:
\* if len(list) > 0 { a.selections[a.cursor] = !a.selections[a.cursor] }
SpaceItem ==
    /\ screen \in {"big", "dups", "old"}
    /\ ReadKey
    /\ IF Len(ShownList) > 0
       THEN /\ selections' = [i \in DOMAIN selections \cup {cursor} |->
                                 IF i = cursor THEN ~IsSet(selections, cursor) ELSE selections[i]]
            /\ picked' = IF cursor >= Len(ShownList)
                         THEN picked
                         ELSE IF IsSet(selections, cursor)
                              THEN picked \ {ShownList[cursor + 1]}
                              ELSE picked \cup {ShownList[cursor + 1]}
       ELSE UNCHANGED <<selections, picked>>
    /\ UNCHANGED <<fs, scanVars, cleanVars, delVars, measVars, sudoVars, helperVars, bigFiles,
                   screen, cursor, duplicateGroups, oldFiles>>

\* case "a" of runBigFiles and runOldFiles:
\* for i := range list { a.selections[i] = true }
SelectAllKey ==
    /\ screen \in {"big", "old"}
    /\ ReadKey
    /\ selections' = [i \in DOMAIN selections \cup 0..(Len(ShownList) - 1) |->
                         IF i < Len(ShownList) THEN TRUE ELSE selections[i]]
    /\ picked' = picked \cup Range(ShownList)
    /\ UNCHANGED <<fs, scanVars, cleanVars, delVars, measVars, sudoVars, helperVars, bigFiles,
                   screen, cursor, duplicateGroups, oldFiles>>

\* models.HasBigFilesSelection, HasDuplicateSelection, HasOldFilesSelection
HasItemSelection(sel) ==
    {i \in DOMAIN sel : sel[i]} /= {}

\* the Path of every item of a list of files
PathsOf(list) ==
    [i \in 1..Len(list) |-> list[i].Path]

\* case "d" of the three result screens: with a selection, the list and the
\* selection map go to DeleteBigFiles, DeleteDuplicates or DeleteOldFiles
DeleteKey ==
    /\ screen \in {"big", "dups", "old"}
    /\ ReadKey
    /\ HasItemSelection(selections)
    /\ delKind' = CASE screen = "big" -> "big"
                    [] screen = "dups" -> "dup"
                    [] OTHER -> "old"
    /\ delFiles' = CASE screen = "big" -> PathsOf(bigFiles)
                     [] screen = "old" -> PathsOf(oldFiles)
                     [] OTHER -> <<>>
    /\ delGroups' = IF screen = "dups" THEN duplicateGroups ELSE <<>>
    /\ selected' = selections
    /\ selKeysLeft' = DOMAIN selections
    /\ delPaths' = <<>>
    /\ delIdx' = 0
    /\ totalDeleted' = 0
    /\ delPc' = "collect"
    /\ fsAtDelete' = fs
    /\ rmLog' = <<>>
    /\ screen' = "deleting"
    /\ UNCHANGED <<fs, scanVars, cleanVars, measVars, sudoVars, helperVars, bigFiles,
                   cursor, selections, duplicateGroups, oldFiles, picked>>

\* the completion screen of deleteBigFiles, deleteDuplicates and
\* deleteOldFiles, key "b"
DeletedBack ==
    /\ screen = "deleting"
    /\ delPc = "done"
    /\ ReadKey
    /\ screen' = "menu"
    /\ delKind' = "none"
    /\ delFiles' = <<>>
    /\ delGroups' = <<>>
    /\ selected' = <<>>
    /\ selKeysLeft' = {}
    /\ delPaths' = <<>>
    /\ delIdx' = 0
    /\ totalDeleted' = 0
    /\ delPc' = "idle"
    /\ fsAtDelete' = <<>>
    /\ rmLog' = <<>>
    /\ UNCHANGED <<fs, scanVars, cleanVars, measVars, sudoVars, helperVars, bigFiles,
                   cursor, selections, duplicateGroups, oldFiles, picked>>

MenuNext ==
    \/ MenuKey
    \/ QuitKey
    \/ BackKey
    \/ UpKey
    \/ DownKey
    \/ SpaceTarget
    \/ AllOrNoneKey
    \/ ScanKey
    \/ CleanKey
    \/ ConfirmYes
    \/ CleanStep
    \/ CleanReturn
    \/ CleanedBack
    \/ BigConfigKey
    \/ DupConfigKey
    \/ OldConfigKey
    \/ SpaceItem
    \/ SelectAllKey
    \/ DeleteKey
    \/ DeleteBigFiles
    \/ DeleteOldFiles
    \/ DeleteDuplicates
    \/ CallDeleteFiles
    \/ DeleteFiles
    \/ DeleteReturn
    \/ DeletedBack

MenuSpec ==
    MenuInit /\ [][MenuNext]_vars

(***************************************************************************)
(* Claims about cleanTarget and CleanTargets                               *)
(***************************************************************************)
RECURSIVE BytesOf(_, _)
\* the bytes of the regular files among paths, as f has them
BytesOf(f, paths) ==
    IF paths = {}
    THEN 0
    ELSE LET q == CHOOSE x \in paths : TRUE
         IN  (IF f[q].dir THEN 0 ELSE f[q].size) + BytesOf(f, paths \ {q})

\* the latest iteration of CleanTargets cleaned a path-based target
SteppedPath ==
    /\ stepIdx /= 0
    /\ ~(targets[stepIdx].IsCommand /\ targets[stepIdx].Command /= "")

StepPath ==
    ExpandPath(targets[stepIdx].Path)

StepResult ==
    results[Len(results)]

StepWildcard ==
    \E i \in 1..Len(targets[stepIdx].Path) : targets[stepIdx].Path[i] = "*"

\* what the latest cleanTarget removed: present before the call, absent after
Removed ==
    DOMAIN fsBefore \ DOMAIN fs

Below(f, path) ==
    {q \in DOMAIN f : q = path \/ (Len(q) > Len(path) /\ SubSeq(q, 1, Len(path) + 1) = path \o <<"/">>)}

\* C4: for a wildcard target whose deletion succeeds (every match removed,
\* no error), cleanTarget reports Actual equal to the total size of the
\* regular files the deletion removed.
C4_WildcardActual ==
    (/\ SteppedPath
     /\ StepWildcard
     /\ StepResult.Error = "nil"
     /\ Len(delLog) > 0
     /\ \A k \in 1..Len(delLog) : delLog[k].err = "nil")
    => StepResult.Actual = BytesOf(fsBefore, Removed)

\* C5: for a concrete existing path that needs no elevation and whose whole
\* tree the user may remove, cleanTarget returns Error = nil and Actual = the
\* bytes of the regular files under the path before the call, and the path
\* (and nothing else) is gone afterwards.
C5_ConcreteActual ==
    (/\ SteppedPath
     /\ ~StepWildcard
     /\ ~targets[stepIdx].RequiresSudo
     /\ StepPath \in DOMAIN fsBefore
     /\ \A q \in Below(fsBefore, StepPath) : fsBefore[q].prot = "user")
    => /\ StepResult.Error = "nil"
       /\ StepResult.Actual = BytesOf(fsBefore, Below(fsBefore, StepPath))
       /\ StepPath \notin DOMAIN fs
       /\ DOMAIN fs = DOMAIN fsBefore \ Below(fsBefore, StepPath)

\* a directory holding files of 500 and 700 bytes yields 1200
C5_Witness ==
    /\ SteppedPath
    /\ ~StepWildcard
    /\ StepPath \in DOMAIN fsBefore
    /\ fsBefore[StepPath].dir
    /\ {fsBefore[q].size : q \in Below(fsBefore, StepPath) \ {StepPath}} = {500, 700}
    /\ StepResult.Error = "nil"
    /\ StepResult.Actual = 1200
    /\ StepPath \notin DOMAIN fs

\* C6: when a wildcard pattern matches two files and exactly one of them
\* fails to delete, cleanTarget returns Error = nil and Actual equal to the
\* size of the one file that was deleted.
C6_PartialFailure ==
    (/\ SteppedPath
     /\ StepWildcard
     /\ Len(delLog) = 2
     /\ \A k \in 1..2 : ~fsBefore[delLog[k].path].dir
     /\ \E k \in 1..2 : delLog[k].err = "nil" /\ delLog[3 - k].err /= "nil")
    => /\ StepResult.Error = "nil"
       /\ \A k \in 1..2 :
              delLog[k].err = "nil" => StepResult.Actual = fsBefore[delLog[k].path].size

\* C7: deletePath on a wildcard pattern attempts deletion of every match
\* regardless of earlier failures (a failed match is one that still exists),
\* and returns an error if and only if there is at least one match and every
\* match failed to delete.
C7_DeletePathWildcard ==
    (SteppedPath /\ StepWildcard /\ delErr /= "none")
    => LET matched == {q \in DOMAIN fsBefore : Match(StepPath, q)}
       IN  /\ {delLog[k].path : k \in 1..Len(delLog)} = matched
           /\ Len(delLog) = Cardinality(matched)
           /\ \A k \in 1..Len(delLog) :
                  (delLog[k].err /= "nil") <=> (delLog[k].path \in DOMAIN fs)
           /\ (delErr /= "nil") <=>
                  (matched /= {} /\ \A q \in matched : q \in DOMAIN fs)

\* the first match failed, the second was still attempted and removed, and
\* deletePath reports no error
C7_Witness ==
    /\ SteppedPath
    /\ StepWildcard
    /\ Len(delLog) >= 2
    /\ delLog[1].err /= "nil"
    /\ delLog[1].path \in DOMAIN fs
    /\ delLog[2].err = "nil"
    /\ delLog[2].path \notin DOMAIN fs
    /\ delErr = "nil"

\* C8: cleaning a concrete path that does not exist returns Error = nil with
\* Actual = 0 and changes nothing on the file system.
C8_AbsentConcrete ==
    (/\ SteppedPath
     /\ ~StepWildcard
     /\ StepPath \notin DOMAIN fsBefore)
    => /\ StepResult.Error = "nil"
       /\ StepResult.Actual = 0
       /\ fs = fsBefore

\* the same target is cleaned a second time: an earlier call freed its bytes
C8_Witness ==
    /\ SteppedPath
    /\ ~StepWildcard
    /\ StepPath \notin DOMAIN fsBefore
    /\ targets[stepIdx].Name \in cleaned
    /\ StepResult.Error = "nil"
    /\ StepResult.Actual = 0

\* C9: if a selected target requires elevation and EnsureSudo fails,
\* CleanTargets deletes nothing and runs no command for any target, and
\* returns an empty result list with total 0.
C9_SudoGate ==
    ((\E i \in 1..Len(targets) : targets[i].Selected /\ targets[i].RequiresSudo)
     /\ preErr = "sudo authentication failed")
    => /\ cleanPc /= "loop"
       /\ fs = fsAtCall
       /\ cmdLog = <<>>
       /\ results = <<>>
       /\ totalSaved = 0

\* the call returned at the gate although a selected target that needs no
\* elevation had a file to delete
C9_Witness ==
    /\ cleanPc = "returned"
    /\ preErr = "sudo authentication failed"
    /\ \E i \in 1..Len(targets) : targets[i].Selected /\ targets[i].RequiresSudo
    /\ \E i \in 1..Len(targets) :
           /\ targets[i].Selected
           /\ ~targets[i].RequiresSudo
           /\ ~targets[i].IsCommand
           /\ ExpandPath(targets[i].Path) \in DOMAIN fs
    /\ results = <<>>

SelectedTargets ==
    SelectSeq(targets, LAMBDA t : t.Selected)

\* C10: when the elevation pre-check passes or is not needed, CleanTargets
\* returns exactly one CleanResult per selected target, in target-list
\* order; the result of an iteration is that of its own target and carries
\* the error of that target's deletion, and a failure does not end the loop.
C10_OneResultPerSelected ==
    /\ (cleanPc = "returned" /\ preErr \in {"nil", "none"})
       => /\ Len(results) = Len(SelectedTargets)
          /\ \A k \in 1..Len(results) : results[k].Target = SelectedTargets[k].Name
    /\ (cleanPc = "loop" /\ stepIdx /= 0)
       => /\ StepResult.Target = targets[stepIdx].Name
          /\ SteppedPath => ((StepResult.Error /= "nil") <=> (delErr \notin {"nil", "none"}))

\* the first selected target failed and carries its error, the second was
\* still cleaned and freed bytes
C10_Witness ==
    /\ cleanPc = "returned"
    /\ preErr \in {"nil", "none"}
    /\ Len(results) = 2
    /\ results[1].Error /= "nil"
    /\ results[2].Error = "nil"
    /\ results[2].Actual > 0

\* the targets the call was given unselected, and what a target's pattern
\* matched when the call began
Unselected ==
    {i \in 1..Len(targets) : ~targetsAtCall[i].Selected /\ ~targetsAtCall[i].IsCommand}

MatchesAtCall(i) ==
    {q \in DOMAIN fsAtCall : Match(ExpandPath(targetsAtCall[i].Path), q)}

ResultNames ==
    {results[k].Target : k \in 1..Len(results)}

\* C11 as stated: CleanTargets never deletes, measures or reports a target
\* whose Selected flag is false: its path still exists afterwards, its Size
\* is unchanged and it has no entry in the results.
C11_UnselectedUntouched ==
    cleanPc \in {"loop", "returned"}
    => \A i \in Unselected :
           /\ \A q \in MatchesAtCall(i) : q \in DOMAIN fs
           /\ targets[i].Size = targetsAtCall[i].Size
           /\ targets[i].Name \notin ResultNames

\* C11 as amended: an unselected target has no entry in the results and its
\* Size is unchanged, and its path still exists afterwards unless it lies at
\* or under a match of a selected target's pattern.
C11_UnselectedFrame ==
    cleanPc \in {"loop", "returned"}
    => /\ \A i \in Unselected :
              /\ targets[i].Size = targetsAtCall[i].Size
              /\ targets[i].Name \notin ResultNames
       /\ \A q \in DOMAIN fsAtCall \ DOMAIN fs :
              (\E i \in Unselected : Match(ExpandPath(targetsAtCall[i].Path), q))
              => \E j \in 1..Len(targets) :
                     /\ targetsAtCall[j].Selected
                     /\ ~targetsAtCall[j].IsCommand
                     /\ \E m \in MatchesAtCall(j) : q \in Below(fsAtCall, m)

\* the call deleted something, and an unselected target's file is still there
C11_Witness ==
    /\ cleanPc = "returned"
    /\ DOMAIN fs /= DOMAIN fsAtCall
    /\ \E i \in Unselected :
           /\ MatchesAtCall(i) /= {}
           /\ \A q \in MatchesAtCall(i) : q \in DOMAIN fs /\ ~fs[q].dir
           /\ targets[i].Name \notin ResultNames

RECURSIVE SumActual(_)
\* the sum of Actual over the results whose Error is nil
SumActual(rs) ==
    IF rs = <<>>
    THEN 0
    ELSE (IF Head(rs).Error = "nil" THEN Head(rs).Actual ELSE 0) + SumActual(Tail(rs))

\* C12: the total returned by CleanTargets equals the sum of Actual over
\* exactly those returned results whose Error is nil.
C12_TotalIsSumOfActual ==
    cleanPc = "returned" => totalSaved = SumActual(results)

\* one result freed bytes and counts, another carries an error and an Actual
\* that does not count
C12_Witness ==
    /\ cleanPc = "returned"
    /\ Len(results) = 2
    /\ \E k \in 1..2 :
           /\ results[k].Error = "nil"
           /\ results[k].Actual > 0
           /\ results[3 - k].Error /= "nil"
           /\ results[3 - k].Actual > 0
           /\ totalSaved = results[k].Actual

\* the result CleanTargets returned for target i
ResultOf(i) ==
    results[CHOOSE k \in 1..Len(results) : results[k].Target = targets[i].Name]

\* C13: CleanTargets resets a target's Size to 0 exactly when that target was
\* selected and its cleaning finished without error; the Size of a target
\* whose cleaning failed (or that was not cleaned) is left unchanged.
C13_SizeReset ==
    cleanPc = "returned"
    => \A i \in 1..Len(targets) :
           IF targets[i].Name \in ResultNames /\ ResultOf(i).Error = "nil"
           THEN targets[i].Size = 0
           ELSE targets[i].Size = targetsAtCall[i].Size

\* one measured target failed and keeps its Size, another succeeded and is
\* back to 0
C13_Witness ==
    /\ cleanPc = "returned"
    /\ \E i, j \in 1..Len(targets) :
           /\ targets[i].Name \in ResultNames
           /\ ResultOf(i).Error /= "nil"
           /\ targets[i].Size > 0
           /\ targets[j].Name \in ResultNames
           /\ ResultOf(j).Error = "nil"
           /\ targetsAtCall[j].Size > 0
           /\ targets[j].Size = 0

\* C19: every target whose files CleanTargets deleted (files holding bytes,
\* to say nothing of empty directories and commands) was listed on the
\* confirmation screen shown immediately before, and every listed target is
\* cleaned when the pre-check for elevation passes.
C19_CleanedWereListed ==
    /\ (cleanPc \in {"loop", "returned"} /\ SteppedPath /\ BytesOf(fsBefore, Removed) > 0)
       => targets[stepIdx].Name \in listed
    /\ (cleanPc = "returned" /\ preErr \in {"nil", "none"})
       => listed \subseteq ResultNames

(***************************************************************************)
(* Claims about the delete operations                                      *)
(***************************************************************************)
\* the list indices (from 0) the map selects
SelectedIndices(n) ==
    {i \in DOMAIN selected : selected[i] /\ i < n}

\* the files DeleteFiles called a removal for, and those that are gone
Tried ==
    {rmLog[k].file : k \in 1..Len(rmLog)}

Gone ==
    DOMAIN fsAtDelete \ DOMAIN fs

\* C14: DeleteDuplicates never deletes the first path of any group: for each
\* selected group it attempts to delete every member except Files[0], for
\* unselected groups and selected indices outside the list it deletes
\* nothing, so each group keeps its first file.
C14_KeepsFirstOfGroup ==
    delKind = "dup"
    => /\ \A k \in 1..Len(delGroups) :
              /\ delGroups[k].Files[1] \notin Tried
              /\ delGroups[k].Files[1] \in DOMAIN fsAtDelete
                 => delGroups[k].Files[1] \in DOMAIN fs
              /\ (k - 1) \notin SelectedIndices(Len(delGroups))
                 => \A q \in Range(delGroups[k].Files) : q \notin Tried /\ q \notin Gone
       /\ Gone \subseteq Tried
       /\ delPc \in {"delete", "done"}
          => Range(delPaths) = UNION {Range(Tail(delGroups[i + 1].Files)) :
                                         i \in SelectedIndices(Len(delGroups))}
       /\ delPc = "done"
          => \A i \in SelectedIndices(Len(delGroups)) :
                 \A q \in Range(Tail(delGroups[i + 1].Files)) :
                     q \in DOMAIN fsAtDelete => q \in Tried

\* a selected group of three lost its second and third file and kept the first
C14_Witness ==
    /\ delKind = "dup"
    /\ delPc = "done"
    /\ \E i \in SelectedIndices(Len(delGroups)) :
           /\ Len(delGroups[i + 1].Files) = 3
           /\ delGroups[i + 1].Files[1] \in DOMAIN fs
           /\ delGroups[i + 1].Files[2] \in Gone
           /\ delGroups[i + 1].Files[3] \in Gone

\* C15: DeleteFiles returns the sum of the pre-deletion sizes of exactly the
\* listed files whose removal succeeded; a file that is missing or cannot be
\* removed contributes 0 and does not stop the remaining files.
C15_DeleteFilesTotal ==
    /\ delPc \in {"delete", "done"}
       => /\ Gone \subseteq Range(delPaths)
          /\ \A k \in 1..Len(rmLog) : (rmLog[k].err = "nil") <=> (rmLog[k].file \in Gone)
    /\ delPc = "done"
       => /\ totalDeleted = BytesOf(fsAtDelete, Gone)
          /\ \A q \in Range(delPaths) : q \in DOMAIN fsAtDelete => q \in Tried

\* the first file of the list could not be removed, a later one was, and the
\* total is the size of that one
C15_Witness ==
    /\ delPc = "done"
    /\ Len(delPaths) >= 2
    /\ delPaths[1] \in DOMAIN fs
    /\ delPaths[1] \in Tried
    /\ \E k \in 2..Len(delPaths) :
           /\ delPaths[k] \in Gone
           /\ Gone = {delPaths[k]}
           /\ totalDeleted = fsAtDelete[delPaths[k]].size

\* C16: DeleteBigFiles and DeleteOldFiles attempt to delete exactly the files
\* at indices i with selected[i] = true and i < len(files); files at
\* unselected indices still exist afterwards and selected indices out of
\* range are ignored.
C16_ExactlySelected ==
    delKind \in {"big", "old"}
    => LET chosen == {delFiles[i + 1] : i \in SelectedIndices(Len(delFiles))}
       IN  /\ Tried \subseteq chosen
           /\ Gone \subseteq chosen
           /\ delPc \in {"delete", "done"}
              => /\ Range(delPaths) = chosen
                 /\ Len(delPaths) = Cardinality(chosen)
           /\ delPc = "done"
              => \A q \in chosen : q \in DOMAIN fsAtDelete => q \in Tried

\* a selected file was deleted, the file at an unselected index is still
\* there, and a selected key lay past the end of the list
C16_Witness ==
    /\ delKind \in {"big", "old"}
    /\ delPc = "done"
    /\ \E i \in DOMAIN selected : selected[i] /\ i >= Len(delFiles)
    /\ \E i \in SelectedIndices(Len(delFiles)) : delFiles[i + 1] \in Gone
    /\ \E k \in 1..Len(delFiles) :
           /\ (k - 1) \notin SelectedIndices(Len(delFiles))
           /\ delFiles[k] \in DOMAIN fs

C18_FindAgreesWithWalk ==
    (mPc = "measured" /\ Contains(mPattern, "*") /\ ~mFound.err)
    => mFound.total = mWalked

(***************************************************************************)
(* Claims about the SudoManager                                            *)
(***************************************************************************)
\* C20: HasSudo and LastAuth are read and written only while the mutex is
\* held: whoever stands at a statement of EnsureSudo or keepAlive that reads
\* or writes one of them holds s.mu, in every interleaving.
C20_AccessUnderLock ==
    /\ access.locked
    /\ ensurePc \in {"check", "refresh", "prompt", "stamp"} => mu = "main"
    /\ \A k \in Goroutines : keepPc[k] \in {"read", "clear", "stamp"} => mu = ToString(k)

\* EnsureSudo is about to read the flag under the lock, right after one
\* goroutine wrote the timestamp, while another waits for the lock to write it
C20_Witness ==
    /\ ensurePc = "check"
    /\ mu = "main"
    /\ HasSudo
    /\ \E k \in Goroutines : keepPc[k] = "lock_stamp"
    /\ access = [by |-> "keepAlive", field |-> "LastAuth", locked |-> TRUE]

\* C21: whenever a keep-alive revalidation fails, HasSudo becomes false and
\* that goroutine terminates: from the failed sudo -n true it only takes the
\* lock, clears the flag and returns, and it does so eventually; it runs no
\* further revalidation and writes LastAuth no more (a goroutine that is
\* off only comes to life as a new one started by EnsureSudo).
C21_FailedRevalidationStops ==
    /\ [][\A k \in Goroutines :
             /\ keepPc[k] = "lock_clear" => keepPc'[k] \in {"lock_clear", "clear"}
             /\ keepPc[k] = "clear"
                => \/ keepPc'[k] = "clear"
                   \/ keepPc'[k] = "off" /\ ~HasSudo'
             /\ keepPc[k] = "off"
                => \/ keepPc'[k] = "off"
                   \/ keepPc'[k] = "wait" /\ ensurePc = "stamp"]_vars
    /\ \A k \in Goroutines :
           (keepPc[k] = "lock_clear") ~> (keepPc[k] = "off" /\ ~HasSudo)

\* a goroutine whose revalidation failed holds the lock and is about to clear
\* the flag, while another goroutine is in the middle of its own revalidation
C21_Witness ==
    \E k \in Goroutines :
        /\ keepPc[k] = "clear"
        /\ mu = ToString(k)
        /\ HasSudo
        /\ \E j \in Goroutines \ {k} : keepPc[j] = "run"

\* C26: at any moment at most one keepAlive goroutine is running, whatever
\* the calls of EnsureSudo, the outcomes of the revalidations and the
\* re-authentications were.
C26_OneKeepAlive ==
    Cardinality({k \in Goroutines : keepPc[k] /= "off"}) <= 1

\* C27: HasSudo is not set to false by a keepAlive revalidation that ran
\* before the latest successful authentication: a goroutine that turns
\* HasSudo from true to false does so for a check that failed after it.
C27_NoStaleClear ==
    [][\A k \in Goroutines :
          (keepPc[k] = "clear" /\ keepPc'[k] /= "clear" /\ HasSudo /\ ~HasSudo')
          => k \notin staleCheck]_vars

(***************************************************************************)
(* Claims about the display helpers                                        *)
(***************************************************************************)
\* C22: ShortenPath returns the path unchanged when len(path) <= maxLen;
\* otherwise "..." when maxLen <= 3, and otherwise "..." followed by the
\* last maxLen-3 bytes of the path, a result of length exactly maxLen.
C22_ShortenPath ==
    shPc = "returned"
    => /\ Len(shPath) <= shMaxLen => shOut = shPath
       /\ (Len(shPath) > shMaxLen /\ shMaxLen <= 3) => shOut = <<".", ".", ".">>
       /\ (Len(shPath) > shMaxLen /\ shMaxLen > 3)
          => /\ Len(shOut) = shMaxLen
             /\ \A i \in 1..3 : shOut[i] = "."
             /\ \A i \in 1..(shMaxLen - 3) :
                    shOut[3 + i] = shPath[Len(shPath) - (shMaxLen - 3) + i]

\* a path of the longest length cut to five bytes: the dots and its last two
C22_Witness ==
    /\ shPc = "returned"
    /\ Len(shPath) = MaxPathLen
    /\ shMaxLen = 5
    /\ shOut = <<".", ".", ".", "/", "a">>

\* C23: formatBytes returns a label for every input: the bare "B" for
\* b < 1024 and, for b >= 1024, a value in the largest unit among KB, MB, GB,
\* TB, PB whose power of 1024 does not exceed b.
C23_FormatBytes ==
    fbPc /= "called"
    => /\ fbPc = "returned"
       /\ BelowUnit(fbBytes) => fbOut = [number |-> <<>>, unit |-> "B"]
       /\ ~BelowUnit(fbBytes)
          => /\ fbOut.number /= <<>>
             /\ \E e \in 1..5 :
                    /\ fbOut.unit = <<"KB", "MB", "GB", "TB", "PB">>[e]
                    /\ Len(fbBytes.digits) >= e + 1
                    /\ e < 5 => Len(fbBytes.digits) = e + 1

(***************************************************************************)
(* Claims about ScanDuplicates                                             *)
(***************************************************************************)
RECURSIVE SumGroups(_)
SumGroups(gs) ==
    IF gs = <<>>
    THEN 0
    ELSE Head(gs).Size * (Len(Head(gs).Files) - 1) + SumGroups(Tail(gs))

\* C1: every group returned by ScanDuplicates has at least 2 member paths and
\* every member's file size equals the group's recorded Size.
C1_GroupsShareSize ==
    scanPc = "done" =>
        \A i \in 1..Len(groups) :
            /\ Len(groups[i].Files) >= 2
            /\ \A j \in 1..Len(groups[i].Files) :
                   fs[groups[i].Files[j]].size = groups[i].Size

\* C2: the total returned by ScanDuplicates equals the sum over the returned
\* groups of group.Size * (number of members - 1).
C2_TotalIsSumOfGroups ==
    scanPc = "done" => totalSize = SumGroups(groups)

\* two identical 2 MiB files alone in their bucket: one group of 2 members,
\* total 2 MiB
C2_Witness ==
    /\ scanPc = "done"
    /\ Len(groups) = 1
    /\ Len(groups[1].Files) = 2
    /\ groups[1].Size = 2 * MinDupSize
    /\ totalSize = 2 * MinDupSize

\* C3: after the traversal pass every path stored under size key s is a
\* regular file of exactly s bytes, and no file of 1 MiB or less is stored.
C3_SizeBuckets ==
    scanPc \in {"hash", "group", "done"} =>
        \A s \in DOMAIN sizeMap :
            \A i \in 1..Len(sizeMap[s]) :
                LET path == sizeMap[s][i]
                IN  /\ Exists(path)
                    /\ ~fs[path].dir
                    /\ fs[path].size = s
                    /\ fs[path].size > 1048576

\* the traversal is over, a bucket is filled and a file of exactly 1 MiB and
\* a smaller one were visited and left out
C3_Witness ==
    /\ scanPc = "hash"
    /\ DOMAIN sizeMap /= {}
    /\ fs[FileA].size = 1048576
    /\ scannedCount = 5
    /\ \A s \in DOMAIN sizeMap : \A i \in 1..Len(sizeMap[s]) :
           sizeMap[s][i] \notin {FileA, FileSmall}

\* the directories of the tree the scanners must not enter
PrunedDirs ==
    {d \in DOMAIN fs :
        /\ fs[d].dir
        /\ \/ Base(d) \in {<<".", "g", "i", "t">>,
                            <<"n", "o", "d", "e", "_", "m", "o", "d", "u", "l", "e", "s">>,
                            <<"v", "e", "n", "d", "o", "r">>,
                            <<"L", "i", "b", "r", "a", "r", "y">>}
           \/ Head(Base(d)) = "."}

\* path lies below one of them
Pruned(path) ==
    \E d \in PrunedDirs : HasPrefix(path, Append(d, "/"))

\* the paths of every list of a map
MapPaths(m) ==
    UNION {Range(m[k]) : k \in DOMAIN m}

\* the entries a walk of the scan roots may be handed
Walked ==
    {p \in DOMAIN fs : ~Pruned(p)}

\* C24: ScanDuplicates and ScanBigFiles never descend into a directory below
\* a scan root whose base name is .git, node_modules, vendor or Library or
\* starts with a dot: nothing below it is queued for a visit, bucketed,
\* hashed or returned, and the count of scanned entries is that of the
\* entries outside such directories.
C24_SkipsPruned ==
    /\ \A p \in Range(walkQueue) \cup MapPaths(sizeMap) \cup MapPaths(hashMap)
               \cup UNION {Range(groups[i].Files) : i \in 1..Len(groups)}
               \cup {bigFiles[i].Path : i \in 1..Len(bigFiles)} : ~Pruned(p)
    /\ scanPc \in {"hash", "group", "done"} =>
           scannedCount = Cardinality({p \in Walked : ~fs[p].dir})
    /\ scanPc = "bigdone" => scannedCount = Cardinality(Walked)

\* a scan that walked past a hidden directory holding a file as large as the
\* others, inside a sub-directory of a scan root, and returned the rest
C24_Witness ==
    /\ scanPc = "bigdone"
    /\ Join(Join(Join(SubDir, <<".", "x">>), <<"q">>), <<"r">>) \in DOMAIN fs
    /\ Len(bigFiles) >= 3
    /\ scannedCount = Cardinality(Walked)

\* the regular files a pattern selects: its glob matches and what lies below
\* a matched directory
SelectedFiles(pattern) ==
    {q \in DOMAIN fs :
        /\ ~fs[q].dir
        /\ \E m \in Range(Glob(CleanUniverse, fs, pattern)) :
               q = m \/ HasPrefix(q, Append(m, "/"))}

\* C25: CalculateSize(pattern) is the total size of the regular files the
\* pattern selects, each counted once, also for a pattern ending in "/*"
\* over nested directories, where it equals what calculateActualSize
\* measures.
C25_EstimateCountsOnce ==
    mPc = "measured" =>
        /\ mEstimate = SumSizes(fs, SelectedFiles(mPattern))
        /\ HasSuffix(mPattern, <<"/", "*">>) => mEstimate = mActual

(***************************************************************************)
(* Claims about the menu loop                                              *)
(***************************************************************************)
\* the items of a list at the indices (from 0) a selection map has set
ItemsSet(list, sel) ==
    {list[i + 1] : i \in {j \in DOMAIN sel : sel[j] /\ j >= 0 /\ j < Len(list)}}

\* every index a selection map has set is one of the list
WithinList(list, sel) ==
    \A i \in DOMAIN sel : sel[i] => (i >= 0 /\ i < Len(list))

\* C28: on the big-files, duplicates and old-files screens the selection map
\* is emptied whenever the list is rebuilt, before a key is handled, so every
\* index set in the map, on the screen and when the list and the map are
\* handed to the delete operation, is below len(list) and is the index of an
\* item the user's keys selected.
C28_SelectionsFollowList ==
    /\ [](screen \in {"big", "dups", "old"}
            => /\ WithinList(ShownList, selections)
               /\ ItemsSet(ShownList, selections) = picked)
    /\ [](screen = "deleting"
            => IF delKind = "dup"
               THEN /\ WithinList(delGroups, selected)
                    /\ ItemsSet(delGroups, selected) = picked
               ELSE /\ WithinList(delFiles, selected)
                    /\ ItemsSet(delFiles, selected) = {item.Path : item \in picked})
    /\ [][(bigFiles' /= bigFiles \/ duplicateGroups' /= duplicateGroups \/ oldFiles' /= oldFiles)
            => selections' = <<>>]_vars

\* after an earlier visit of a result screen, the second of two files listed
\* was toggled and the list and the map were handed to the delete operation
C28_Witness ==
    /\ screen = "deleting"
    /\ keysRead >= 7
    /\ Len(delFiles) = 2
    /\ DOMAIN selected = {1}
    /\ selected[1]
    /\ picked /= {}

\* C29: on every screen with a list the cursor stays within
\* 0..max(0, len(list)-1) whatever keys are pressed, and a key of a screen
\* changes the selection only at indices of the list shown; the toggle of a
\* target never indexes past the list.
C29_CursorInList ==
    /\ [](screen \in ListScreens
            => /\ cursor >= 0
               /\ cursor <= IF Len(ShownList) = 0 THEN 0 ELSE Len(ShownList) - 1)
    /\ [](screen /= "panic")
    /\ [][screen' = screen
            => \A i \in DOMAIN selections' :
                   IsSet(selections', i) /= IsSet(selections, i) => i < Len(ShownList)]_vars

\* the cursor was moved to the last of two files and the file was toggled
C29_Witness ==
    /\ screen = "big"
    /\ Len(bigFiles) = 2
    /\ cursor = 1
    /\ IsSet(selections, 1)
    /\ ~IsSet(selections, 0)

\* C30: when CleanTargets returns at the elevation gate, the completion
\* screen of cleanTargets shows an error and not the plain "Complete!".
C30_AbortIsShown ==
    (cleanPc = "returned" /\ preErr = "sudo authentication failed")
    => PrintDone(totalSaved, lastError(results)).headline /= "Complete!"

====
